---- MODULE Spec2Model ----
(***************************************************************************)
(* Easynews Stremio addon: the search client (EasynewsSearcher), the       *)
(* metadata collaborator (TMDBHandler.getMetadata) and the three request   *)
(* handlers of addon.js (catalog, meta, stream) around the process-wide    *)
(* searchCache.                                                            *)
(*                                                                         *)
(* Strings are TLA+ strings; Len, SubSeq and \o act on them character by   *)
(* character, so the regular expressions of the source are modelled as     *)
(* scans over the characters of the string they are applied to.            *)
(* JavaScript's null/undefined is NullNum where a number is expected and    *)
(* NullStr where a string is expected; NaN is the number NaN.              *)
(***************************************************************************)
EXTENDS Integers, Sequences, FiniteSets, TLC

NullNum == -1
NullStr == "<null>"
NaN == -2

(***************************************************************************)
(* Character-level helpers: the primitives the source's regular            *)
(* expressions and String methods are built from.                          *)
(***************************************************************************)
Range(seq) == {seq[i] : i \in 1..Len(seq)}

Min(S) == CHOOSE i \in S : \A j \in S : i <= j
Max(S) == CHOOSE i \in S : \A j \in S : j <= i

\* The least of a set of positions, 0 if there is none: where a search that
\* scans from the left finds its first match.
First(S) == IF S = {} THEN 0 ELSE Min(S)

UpperChars == "ABCDEFGHIJKLMNOPQRSTUVWXYZ"
LowerChars == "abcdefghijklmnopqrstuvwxyz"
DigitChars == "0123456789"

CharAt(s, i) == SubSeq(s, i, i)

CharsOf(s) == {CharAt(s, i) : i \in 1..Len(s)}

\* Position of the one-character string c in the alphabet string abc, 0 if absent.
PosIn(c, abc) ==
    IF \E i \in 1..Len(abc) : CharAt(abc, i) = c
    THEN CHOOSE i \in 1..Len(abc) : CharAt(abc, i) = c
    ELSE 0

IsDigit(c) == PosIn(c, DigitChars) # 0

DigitVal(c) == PosIn(c, DigitChars) - 1

\* \w of a JavaScript regular expression: [A-Za-z0-9_]
IsWordChar(c) ==
    \/ PosIn(c, UpperChars) # 0
    \/ PosIn(c, LowerChars) # 0
    \/ IsDigit(c)
    \/ c = "_"

\* \s restricted to the space character (feeds carry no other whitespace here).
IsSpace(c) == c = " "

\* The character c, or the character at position k of the alphabet abc when c
\* was found at position k of the other case's alphabet.
CaseOf(c, k, abc) == IF k # 0 THEN CharAt(abc, k) ELSE c

\* s[i..] with the characters of the alphabet from replaced by those of to.
RECURSIVE MapChars(_, _, _, _)
MapChars(s, i, from, to) ==
    IF i > Len(s) THEN ""
    ELSE CaseOf(CharAt(s, i), PosIn(CharAt(s, i), from), to) \o MapChars(s, i + 1, from, to)

\* String.prototype.toLowerCase / toUpperCase
toLowerCase(s) == MapChars(s, 1, UpperChars, LowerChars)
toUpperCase(s) == MapChars(s, 1, LowerChars, UpperChars)

\* s has the literal pat at position i (case-insensitively when ci).
HasAt(s, i, pat, ci) ==
    /\ i >= 1
    /\ i + Len(pat) - 1 <= Len(s)
    /\ IF ci THEN toLowerCase(SubSeq(s, i, i + Len(pat) - 1)) = toLowerCase(pat)
             ELSE SubSeq(s, i, i + Len(pat) - 1) = pat

\* Least position >= from at which pat occurs in s, 0 if none.
IndexFrom(s, pat, from, ci) ==
    First({i \in from..Len(s) : HasAt(s, i, pat, ci)})

Contains(s, pat, ci) == IndexFrom(s, pat, 1, ci) # 0

\* \b at the boundary before position i (1 <= i <= Len(s)+1).
WordBoundary(s, i) ==
    (i > 1 /\ i - 1 <= Len(s) /\ IsWordChar(CharAt(s, i - 1)))
        # (i >= 1 /\ i <= Len(s) /\ IsWordChar(CharAt(s, i)))

\* s with the characters from..to removed.
Cut(s, from, to) == SubSeq(s, 1, from - 1) \o SubSeq(s, to + 1, Len(s))

\* String.prototype.trim
RECURSIVE TrimLeft(_)
TrimLeft(s) ==
    IF Len(s) > 0 /\ IsSpace(CharAt(s, 1)) THEN TrimLeft(SubSeq(s, 2, Len(s))) ELSE s

RECURSIVE TrimRight(_)
TrimRight(s) ==
    IF Len(s) > 0 /\ IsSpace(CharAt(s, Len(s)))
    THEN TrimRight(SubSeq(s, 1, Len(s) - 1)) ELSE s

trim(s) == TrimLeft(TrimRight(s))

\* s.replace(/<from>/g, to) for one-character patterns.
RECURSIVE ReplaceChar(_, _, _)
ReplaceChar(s, from, to) ==
    IF Len(s) = 0 THEN ""
    ELSE (IF CharAt(s, 1) = from THEN to ELSE CharAt(s, 1))
         \o ReplaceChar(SubSeq(s, 2, Len(s)), from, to)

\* Number of leading decimal digits of s starting at position i.
RECURSIVE DigitRun(_, _)
DigitRun(s, i) ==
    IF i <= Len(s) /\ IsDigit(CharAt(s, i)) THEN 1 + DigitRun(s, i + 1) ELSE 0

\* Value of the decimal digits s[i..i+n-1].
RECURSIVE DigitsValue(_, _, _)
DigitsValue(s, i, n) ==
    IF n = 0 THEN 0
    ELSE 10 * DigitsValue(s, i, n - 1) + DigitVal(CharAt(s, i + n - 1))

\* parseInt(s) for unsigned decimal text: the leading digits, NaN if there are none.
parseInt(s) == IF DigitRun(s, 1) = 0 THEN NaN ELSE DigitsValue(s, 1, DigitRun(s, 1))

\* String.prototype.padStart(2, '0')
padStart2(s) == IF Len(s) >= 2 THEN s ELSE IF Len(s) = 1 THEN "0" \o s ELSE "00"

(***************************************************************************)
(* EasynewsSearcher: the Filename Classifier.                              *)
(***************************************************************************)
Qualities == {"4K", "1080p", "720p", "480p", "SD"}

\* /<a>.?<b>/i: a, then at most one arbitrary character, then b.
ContainsGap(s, a, b) ==
    \E i \in 1..Len(s) :
        /\ HasAt(s, i, a, TRUE)
        /\ \/ HasAt(s, i + Len(a), b, TRUE)
           \/ HasAt(s, i + Len(a) + 1, b, TRUE)

\* /HD(?!TV)/i
ContainsHDNotTV(s) ==
    \E i \in 1..Len(s) : HasAt(s, i, "HD", TRUE) /\ ~HasAt(s, i + 2, "TV", TRUE)

\* /SD\b/i
ContainsSDBoundary(s) ==
    \E i \in 1..Len(s) : HasAt(s, i, "SD", TRUE) /\ WordBoundary(s, i + 2)

Matches4K(s) ==
    \/ Contains(s, "2160p", TRUE)
    \/ Contains(s, "4K", TRUE)
    \/ Contains(s, "UHD", TRUE)
    \/ ContainsGap(s, "ULTRA", "HD")

Matches1080(s) ==
    \/ Contains(s, "1080p", TRUE)
    \/ Contains(s, "1080i", TRUE)
    \/ Contains(s, "FHD", TRUE)
    \/ ContainsGap(s, "FULL", "HD")

Matches720(s) == Contains(s, "720p", TRUE) \/ ContainsHDNotTV(s)

Matches480(s) ==
    \/ Contains(s, "480p", TRUE)
    \/ Contains(s, "480i", TRUE)
    \/ ContainsSDBoundary(s)

\* The classifier with the 1080p group tried before the 4K group.
detectQuality1080First(filename) ==
    IF Matches1080(filename) THEN "1080p"
    ELSE IF Matches4K(filename) THEN "4K"
    ELSE IF Matches720(filename) THEN "720p"
    ELSE IF Matches480(filename) THEN "480p"
    ELSE "SD"

detectQuality(filename) ==
    IF Matches4K(filename) THEN "4K"
    ELSE IF Matches1080(filename) THEN "1080p"
    ELSE IF Matches720(filename) THEN "720p"
    ELSE IF Matches480(filename) THEN "480p"
    ELSE "SD"

\* The emoji of the source are written as ASCII tags.
getQualityEmoji(quality) ==
    CASE quality = "4K"    -> "(star)"
      [] quality = "1080p" -> "(camera)"
      [] quality = "720p"  -> "(tv)"
      [] quality = "480p"  -> "(phone)"
      [] quality = "SD"    -> "(disk)"
      [] OTHER             -> "(tv)"

\* /\.[^/.]+$/ : position of the dot that starts a trailing extension, 0 if none.
ExtensionDot(s) ==
    First({i \in 1..(Len(s) - 1) :
              /\ CharAt(s, i) = "."
              /\ \A j \in (i + 1)..Len(s) : CharAt(s, j) \notin {"/", "."}})

\* s[1..i-1], or all of s when i = 0: s with the match that starts at i and
\* runs to the end of s removed.
Before(s, i) == IF i = 0 THEN s ELSE SubSeq(s, 1, i - 1)

\* s.replace(/\.[^/.]+$/, '')
StripExtension(s) == Before(s, ExtensionDot(s))

EncodingTokens ==
    {"480p", "720p", "1080p", "1080i", "2160p", "4k", "uhd", "hdr", "bluray",
     "webrip", "web-dl", "webdl", "web"}

\* Start of /\b(?:480p|...|web)\b.*$/i in s, 0 if it does not match.
EncodingStart(s) ==
    First({i \in 1..Len(s) :
              /\ WordBoundary(s, i)
              /\ \E t \in EncodingTokens :
                    HasAt(s, i, t, TRUE) /\ WordBoundary(s, i + Len(t))})

StripEncoding(s) == Before(s, EncodingStart(s))

\* Start of the first match of /\b(?:19|20)\d{2}\b/ in s, 0 if none.
YearStart(s) ==
    First({i \in 1..Len(s) :
              /\ WordBoundary(s, i)
              /\ HasAt(s, i, "19", FALSE) \/ HasAt(s, i, "20", FALSE)
              /\ DigitRun(s, i + 2) >= 2
              /\ WordBoundary(s, i + 4)})

\* First match of /S(\d{1,2})E(\d{1,2})/i at position i: the lengths of the two
\* digit groups, <<0, 0>> if the pattern does not match there.
\* \d{1,2} at position i: the number of digits it takes (greedy), 0 if none.
Digits12(s, i) == Min({2, DigitRun(s, i)})

SeasonEpGroups(s, i, k1, k2) ==
    IF /\ HasAt(s, i, "S", TRUE)
       /\ k1 >= 1
       /\ HasAt(s, i + 1 + k1, "E", TRUE)
       /\ k2 >= 1
    THEN <<k1, k2>> ELSE <<0, 0>>

SeasonEpAfter(s, i, k1) == SeasonEpGroups(s, i, k1, Digits12(s, i + 2 + k1))

SeasonEpAt(s, i) == SeasonEpAfter(s, i, Digits12(s, i + 1))

SeasonEpStart(s) == First({i \in 1..Len(s) : SeasonEpAt(s, i) # <<0, 0>>})

\* s.replace(/<open>.*?<close>/g, '')
RECURSIVE RemoveBracketed(_, _, _), RemoveFrom(_, _, _, _), RemoveTo(_, _, _, _, _)
RemoveBracketed(s, open, close) == RemoveFrom(s, open, close, IndexFrom(s, open, 1, FALSE))

\* The same with i the position of the first open in s (0: none).
RemoveFrom(s, open, close, i) ==
    IF i = 0 THEN s ELSE RemoveTo(s, open, close, i, IndexFrom(s, close, i + 1, FALSE))

\* The same with j the position of the first close after i (0: none).
RemoveTo(s, open, close, i, j) ==
    IF j = 0 THEN s
    ELSE SubSeq(s, 1, i - 1) \o RemoveBracketed(SubSeq(s, j + 1, Len(s)), open, close)

\* s.replace(/\s+/g, ' ')
RECURSIVE CollapseSpaces(_)
CollapseSpaces(s) ==
    IF Len(s) = 0 THEN ""
    ELSE IF IsSpace(CharAt(s, 1))
         THEN " " \o CollapseSpaces(TrimLeft(s))
         ELSE CharAt(s, 1) \o CollapseSpaces(SubSeq(s, 2, Len(s)))

\* "Clean title" and the returned record
FileInfo(cleanName, year, season, episode) ==
    [title   |-> trim(CollapseSpaces(RemoveBracketed(RemoveBracketed(cleanName, "[", "]"),
                                                     "(", ")"))),
     year    |-> year,
     season  |-> season,
     episode |-> episode]

\* s.replace(text, ''): s without the first occurrence of text
RemoveFirst(s, text) == Before(s, IndexFrom(s, text, 1, FALSE)) \o
    (IF IndexFrom(s, text, 1, FALSE) = 0 THEN ""
     ELSE SubSeq(s, IndexFrom(s, text, 1, FALSE) + Len(text), Len(s)))

\* if (season && episode): null and 0 are both falsy. ss is where seasonEpMatch
\* starts and ks are the lengths of its two digit groups.
DropSeasonEp(cleanName, year, ss, ks, season, episode) ==
    FileInfo(IF season # 0 /\ episode # 0
             THEN trim(Cut(cleanName, ss, ss + 1 + ks[1] + ks[2])) ELSE cleanName,
             year, season, episode)

\* The season/episode extraction with `parseInt(seasonEpMatch[2]) || null` for
\* the episode: episode 0 becomes null.
ParseSeasonEpZeroAsNull(cleanName, year, ss, ks) ==
    DropSeasonEp(cleanName, year, ss, ks, DigitsValue(cleanName, ss + 1, ks[1]),
                 IF DigitsValue(cleanName, ss + 2 + ks[1], ks[2]) = 0 THEN NullNum
                 ELSE DigitsValue(cleanName, ss + 2 + ks[1], ks[2]))

ParseSeasonEp(cleanName, year, ss, ks) ==
    DropSeasonEp(cleanName, year, ss, ks, DigitsValue(cleanName, ss + 1, ks[1]),
                 DigitsValue(cleanName, ss + 2 + ks[1], ks[2]))

\* "Extract season/episode": ss = 0 when seasonEpMatch is null
SeasonEpMatch(cleanName, year, ss) ==
    IF ss = 0 THEN FileInfo(cleanName, year, NullNum, NullNum)
    ELSE ParseSeasonEp(cleanName, year, ss, SeasonEpAt(cleanName, ss))

ExtractSeasonEp(cleanName, year) == SeasonEpMatch(cleanName, year, SeasonEpStart(cleanName))

\* "Extract year": ys = 0 when yearMatch is null; a matched year is never 0
YearMatch(cleanName, ys) ==
    IF ys = 0 THEN ExtractSeasonEp(cleanName, NullNum)
    ELSE ExtractSeasonEp(trim(RemoveFirst(cleanName, SubSeq(cleanName, ys, ys + 3))),
                         parseInt(SubSeq(cleanName, ys, ys + 3)))

ExtractYear(cleanName) == YearMatch(cleanName, YearStart(cleanName))

\* "Clean up filename"
CleanName(filename) ==
    trim(ReplaceChar(ReplaceChar(StripEncoding(StripExtension(filename)), ".", " "), "-", " "))

extractFileInfo(filename) == ExtractYear(CleanName(filename))

(***************************************************************************)
(* EasynewsSearcher: the Feed Item Parser.                                 *)
(***************************************************************************)
\* The outcome of an operation that threw instead of returning a string.
Throw == "<throw>"

maxFileSize == 100

\* The printable ASCII characters, code 32 first ("?" in the place of code 96).
Ascii ==
    " !\"#$%&'()*+,-./0123456789:;<=>?@ABCDEFGHIJKLMNOPQRSTUVWXYZ[\\]^_?abcdefghijklmnopqrstuvwxyz{|}~"

\* String.fromCharCode within printable ASCII; "?" stands for any other character.
fromCharCode(code) ==
    IF code >= 32 /\ code <= 126 THEN CharAt(Ascii, code - 31) ELSE "?"

HexChars == "0123456789abcdef"

IsHex(c) == PosIn(toLowerCase(c), HexChars) # 0

HexVal(c) == PosIn(toLowerCase(c), HexChars) - 1

\* decodeURIComponent: %XX escapes are decoded; a % that starts no escape, or an
\* escape that is no complete character (a byte above 0x7F on its own), throws
\* URIError.
\* c followed by rest, unless decoding the rest threw.
Decoded(c, rest) == IF c = Throw \/ rest = Throw THEN Throw ELSE c \o rest

\* The character with this code: a byte above 0x7F on its own is no character.
DecodedByte(code) == IF code > 127 THEN Throw ELSE fromCharCode(code)

RECURSIVE decodeURIComponent(_)
decodeURIComponent(s) ==
    IF Len(s) = 0 THEN ""
    ELSE IF CharAt(s, 1) # "%"
         THEN Decoded(CharAt(s, 1), decodeURIComponent(SubSeq(s, 2, Len(s))))
         ELSE IF Len(s) < 3 \/ ~IsHex(CharAt(s, 2)) \/ ~IsHex(CharAt(s, 3))
              THEN Throw
              ELSE Decoded(DecodedByte(16 * HexVal(CharAt(s, 2)) + HexVal(CharAt(s, 3))),
                           decodeURIComponent(SubSeq(s, 4, Len(s))))

\* The replacement decodeHTMLEntities computes for the entity name between & and ;
\* (match is the whole matched text).
EntityReplacement(entity, match) ==
    IF HasAt(entity, 1, "#", FALSE)
    THEN IF parseInt(SubSeq(entity, 2, Len(entity))) = NaN THEN match
         ELSE fromCharCode(parseInt(SubSeq(entity, 2, Len(entity))))
    ELSE CASE entity = "amp"  -> "&"
           [] entity = "apos" -> "'"
           [] entity = "lt"   -> "<"
           [] entity = "gt"   -> ">"
           [] entity = "quot" -> "\""
           [] entity = "nbsp" -> " "
           [] OTHER           -> match

\* Start of the first match of /&([^;]+);/ in text, 0 if none.
EntityStart(text) ==
    First({i \in 1..Len(text) :
              /\ CharAt(text, i) = "&"
              /\ i + 1 <= Len(text)
              /\ CharAt(text, i + 1) # ";"
              /\ IndexFrom(text, ";", i + 2, FALSE) # 0})

\* text.replace(/&([^;]+);/g, ...)
RECURSIVE decodeHTMLEntities(_), DecodeFrom(_, _), DecodeEntity(_, _, _)
decodeHTMLEntities(text) == DecodeFrom(text, EntityStart(text))

\* The same with i the start of the first entity of text (0: none).
DecodeFrom(text, i) ==
    IF i = 0 THEN text ELSE DecodeEntity(text, i, IndexFrom(text, ";", i + 2, FALSE))

\* The same with e the position of the ";" that ends the entity.
DecodeEntity(text, i, e) ==
    SubSeq(text, 1, i - 1)
        \o EntityReplacement(SubSeq(text, i + 1, e - 1), SubSeq(text, i, e))
        \o decodeHTMLEntities(SubSeq(text, e + 1, Len(text)))

\* The number whose text t starts with n1 integer digits and, after a ".", n2
\* fraction digits: the value is m / 10^d; nan when t starts with no number.
FloatOf(t, n1, n2) ==
    IF n1 = 0 /\ n2 = 0 THEN [nan |-> TRUE, m |-> 0, d |-> 0]
    ELSE [nan |-> FALSE,
          m   |-> DigitsValue(t, 1, n1) * (10 ^ n2) + DigitsValue(t, n1 + 2, n2),
          d   |-> n2]

FloatDigits(t, n1) ==
    FloatOf(t, n1, IF HasAt(t, n1 + 1, ".", FALSE) THEN DigitRun(t, n1 + 2) ELSE 0)

FloatText(t) == FloatDigits(t, DigitRun(t, 1))

\* parseFloat for unsigned decimal text "ddd" or "ddd.ddd"
parseFloat(s) == FloatText(TrimLeft(s))

\* The word of s from just after the space at sp1 to the next space at sp2
\* (0: to the end of s).
WordBetween(s, sp1, sp2) ==
    IF sp2 = 0 THEN SubSeq(s, sp1 + 1, Len(s)) ELSE SubSeq(s, sp1 + 1, sp2 - 1)

WordAfter(s, sp1) ==
    IF sp1 = 0 THEN NullStr ELSE WordBetween(s, sp1, IndexFrom(s, " ", sp1 + 1, FALSE))

\* fileSize.split(' ')[1], NullStr for undefined
SecondWord(s) == WordAfter(s, IndexFrom(s, " ", 1, FALSE))

\* word?.toLowerCase() || 'gb': undefined and "" fall back to 'gb'.
UnitOf(word) == IF word = NullStr \/ word = "" THEN "gb" ELSE toLowerCase(word)

\* The unit convertToGB switches on
SizeUnit(fileSize) == UnitOf(SecondWord(fileSize))

\* The switch of convertToGB: size m / 10^d in the unit, in gigabytes as the
\* fraction num / den; nan for NaN.
InGB(size, unit) ==
    CASE unit = "kb" -> [nan |-> size.nan, num |-> size.m, den |-> (10 ^ size.d) * 1024 * 1024]
      [] unit = "mb" -> [nan |-> size.nan, num |-> size.m, den |-> (10 ^ size.d) * 1024]
      [] unit = "gb" -> [nan |-> size.nan, num |-> size.m, den |-> 10 ^ size.d]
      [] unit = "tb" -> [nan |-> size.nan, num |-> size.m * 1024, den |-> 10 ^ size.d]
      [] OTHER       -> [nan |-> FALSE, num |-> 0, den |-> 1]

convertToGB(fileSize) == InGB(parseFloat(fileSize), SizeUnit(fileSize))

\* The size test with >= in the place of >.
ReachesMaxFileSize(sizeInGB) ==
    ~sizeInGB.nan /\ sizeInGB.num >= maxFileSize * sizeInGB.den

\* sizeInGB > this.maxFileSize (every comparison with NaN is false)
ExceedsMaxFileSize(sizeInGB) ==
    ~sizeInGB.nan /\ sizeInGB.num > maxFileSize * sizeInGB.den

\* Start of the first match of /<prefix>([^"]+)"/ in xml, 0 if none.
QuoteStart(xml, prefix) ==
    First({i \in 1..Len(xml) :
              /\ HasAt(xml, i, prefix, FALSE)
              /\ IndexFrom(xml, "\"", i + Len(prefix), FALSE) > i + Len(prefix)})

\* The text captured by the match that starts at i, NullStr for no match.
QuotedAt(xml, prefix, i) ==
    IF i = 0 THEN NullStr
    ELSE SubSeq(xml, i + Len(prefix), IndexFrom(xml, "\"", i + Len(prefix), FALSE) - 1)

\* First match of /<prefix>([^"]+)"/ in xml: the captured text, NullStr if none.
QuotedAfter(xml, prefix) == QuotedAt(xml, prefix, QuoteStart(xml, prefix))

\* An extension list that also lets text files through.
MediaAndTextExtensions == {"mkv", "mp4", "avi", "ts", "nfo"}

MediaExtensions == {"mkv", "mp4", "avi", "ts"}

\* The positions e at which a media extension followed by "?" or by the end of
\* url ends.
ExtensionEnds(url) ==
    {e \in 1..Len(url) :
        /\ e = Len(url) \/ CharAt(url, e + 1) = "?"
        /\ \E ext \in MediaExtensions : HasAt(url, e - Len(ext), "." \o ext, TRUE)}

\* /\/([^\/]+\.(?:mkv|mp4|avi|ts))(?:\?|$)/i matches from the "/" at i to e.
MatchesFilename(url, i, e) ==
    /\ CharAt(url, i) = "/"
    /\ \A k \in (i + 1)..e : CharAt(url, k) # "/"
    /\ \E ext \in MediaExtensions :
          e - Len(ext) - 1 > i /\ HasAt(url, e - Len(ext), "." \o ext, TRUE)

\* The file name captured by the match that starts at the "/" at i (leftmost
\* start, then the longest), NullStr for no match.
FilenameAt(url, ends, i) ==
    IF i = 0 THEN NullStr
    ELSE SubSeq(url, i + 1, Max({e \in ends : MatchesFilename(url, i, e)}))

FilenameEnding(url, ends) ==
    FilenameAt(url, ends, First({i \in 1..Len(url) : \E e \in ends : MatchesFilename(url, i, e)}))

\* The first match in url: the captured file name, NullStr if none.
FilenameOfUrl(url) == FilenameEnding(url, ExtensionEnds(url))

\* /(^|-|\s)sample[s]?(\.|$|\s|-)/i
IsSample(filename) ==
    LET After(k) == k > Len(filename) \/ CharAt(filename, k) \in {".", " ", "-"}
    IN  \E i \in 1..Len(filename) :
            /\ HasAt(filename, i, "sample", TRUE)
            /\ i = 1 \/ CharAt(filename, i - 1) \in {"-", " "}
            /\ After(i + 6) \/ (HasAt(filename, i + 6, "s", TRUE) /\ After(i + 7))

\* The value parseXMLItem returns for "no Result" (null).
NoResult == [filename |-> NullStr]

\* The value that stands for an exception leaving a function that returns Results.
Raised == [filename |-> Throw]

\* The Result parseXMLItem returns.
Result(filename, url, fileSize, quality, info) ==
    [filename     |-> filename,
     linkUrl      |-> url,
     fileSize     |-> fileSize,
     quality      |-> quality,
     qualityEmoji |-> getQualityEmoji(quality),
     title        |-> info.title,
     year         |-> info.year,
     season       |-> info.season,
     episode      |-> info.episode]

\* "Skip sample files", "Check file size", then the Result.
ParseNamed(filename, url, fileSize) ==
    IF IsSample(filename) THEN NoResult
    ELSE IF ExceedsMaxFileSize(convertToGB(fileSize)) THEN NoResult
    ELSE Result(filename, url, fileSize, detectQuality(filename), extractFileInfo(filename))

\* decodeURIComponent(filenameMatch[1]) may throw.
ParseDecoded(decoded, url, fileSize) ==
    IF decoded = Throw THEN Raised
    ELSE ParseNamed(decodeHTMLEntities(decoded), url, fileSize)

\* "Get filename from URL": rawName is filenameMatch[1], NullStr for no match.
ParseFilename(rawName, url, fileSize) ==
    IF rawName = NullStr THEN NoResult
    ELSE ParseDecoded(decodeURIComponent(rawName), url, fileSize)

\* "Extract file size": rawSize is sizeMatch[1], NullStr for no match.
FileSizeOf(rawSize) == IF rawSize # NullStr THEN decodeHTMLEntities(rawSize) ELSE "0 B"

ParseUrl(itemXml, url) ==
    ParseFilename(FilenameOfUrl(url), url, FileSizeOf(QuotedAfter(itemXml, "length=\"")))

\* "Extract URL": rawUrl is enclosureMatch[1], NullStr for no match.
ParseEnclosure(itemXml, rawUrl) ==
    IF rawUrl = NullStr THEN NoResult ELSE ParseUrl(itemXml, decodeHTMLEntities(rawUrl))

\* The body of parseXMLItem's try block: a Result, NoResult, or Raised when a
\* statement of the block throws.
ParseItemBody(itemXml) == ParseEnclosure(itemXml, QuotedAfter(itemXml, "<enclosure url=\""))

\* The catch block of parseXMLItem turns every exception into null.
CatchItem(body) == IF body = Raised THEN NoResult ELSE body

parseXMLItem(itemXml) == CatchItem(ParseItemBody(itemXml))

(***************************************************************************)
(* EasynewsSearcher: the Search Client (the part of search that follows    *)
(* the fetch; the retry loop is in the actions below).                     *)
(***************************************************************************)
maxRetries == 3

\* /<item>([\s\S]*?)<\/item>/g : the captured fragments, in order.
RECURSIVE ItemFragments(_), FragmentsFrom(_, _), FragmentsTo(_, _, _)
ItemFragments(xml) == FragmentsFrom(xml, IndexFrom(xml, "<item>", 1, FALSE))

\* The same with i the position of the first "<item>" of xml (0: none).
FragmentsFrom(xml, i) ==
    IF i = 0 THEN <<>> ELSE FragmentsTo(xml, i, IndexFrom(xml, "</item>", i + 6, FALSE))

\* The same with j the position of the first "</item>" after it (0: none).
FragmentsTo(xml, i, j) ==
    IF j = 0 THEN <<>>
    ELSE <<SubSeq(xml, i + 6, j - 1)>> \o ItemFragments(SubSeq(xml, j + 7, Len(xml)))

\* results.push(result) if result is not null; an exception ends the loop.
Collect(result, rest) ==
    IF result = Raised \/ rest = <<Raised>> THEN <<Raised>>
    ELSE IF result = NoResult THEN rest
    ELSE <<result>> \o rest

\* The while loop of search: the non-null Results in discovery order, or
\* <<Raised>> when parseXMLItem lets an exception out.
RECURSIVE ParseItems(_)
ParseItems(fragments) ==
    IF fragments = <<>> THEN <<>>
    ELSE Collect(parseXMLItem(Head(fragments)), ParseItems(Tail(fragments)))

\* What search's try block produces once fetchWithRetry has settled with xml
\* (Throw when it rejected).
SearchTry(xml) ==
    IF xml = Throw THEN <<Raised>> ELSE ParseItems(ItemFragments(xml))

\* search without its catch block: what the try block threw leaves search.
SearchUncaught(xml) == SearchTry(xml)

\* The catch block of search returns [] for whatever the try block threw.
CatchSearch(results) == IF results = <<Raised>> THEN <<>> ELSE results

search(xml) == CatchSearch(SearchTry(xml))

\* fetchEasynewsRssFeed on one answer of the remote index: the body text, or
\* Throw for a network error and for a status that is not ok.
fetchEasynewsRssFeed(answer) ==
    IF answer.error THEN Throw
    ELSE IF ~answer.ok THEN Throw
    ELSE answer.text

(***************************************************************************)
(* addon.js: streams and their presentation order.                         *)
(***************************************************************************)
createStream(result) ==
    [name       |-> result.quality \o " " \o result.qualityEmoji
                    \o " [" \o result.fileSize \o "]",
     title      |-> result.filename,
     url        |-> result.linkUrl,
     bingeGroup |-> "easynews-" \o result.quality]

\* Array.prototype.map: the sequence of Op(x) for the x of seq, in order.
RECURSIVE Map(_, _)
Map(Op(_), seq) ==
    IF seq = <<>> THEN <<>>
    ELSE <<Op(Head(seq))>> \o Map(Op, Tail(seq))

\* results.map(createStream)
MapCreateStream(results) == Map(createStream, results)

QualityTokens == <<"4K", "1080p", "720p", "480p", "SD">>

\* The text of the first alternative of (4K|1080p|720p|480p|SD) that matches
\* at position i of name, NullStr for no match.
QualityAt(name, i) ==
    IF i = 0 THEN NullStr
    ELSE SubSeq(name, i, i - 1 + Len(QualityTokens[
             Min({k \in 1..Len(QualityTokens) : HasAt(name, i, QualityTokens[k], TRUE)})]))

\* name.match(/(4K|1080p|720p|480p|SD)/i)?.[1] : the matched text, NullStr if none.
QualityMatch(name) ==
    QualityAt(name, First({i \in 1..Len(name) :
        \E k \in 1..Len(QualityTokens) : HasAt(name, i, QualityTokens[k], TRUE)}))

\* qualityOrder[key] || 0
qualityOrder(key) ==
    CASE key = "4K"    -> 5
      [] key = "1080p" -> 4
      [] key = "720p"  -> 3
      [] key = "480p"  -> 2
      [] key = "SD"    -> 1
      [] OTHER         -> 0

\* qualityOrder[match?.[1]?.toUpperCase() || 'SD'] || 0
MatchRank(m) == qualityOrder(IF m = NullStr THEN "SD" ELSE toUpperCase(m))

\* The rank the comparator of sortStreams gives a stream.
StreamRank(stream) == MatchRank(QualityMatch(stream.name))

\* Array.prototype.sort with the comparator (a, b) => Rank(b) - Rank(a): a stable
\* sort, descending by rank, here as an insertion sort over [item, rank] pairs.
RECURSIVE InsertByRank(_, _)
InsertByRank(sorted, pair) ==
    IF sorted = <<>> THEN <<pair>>
    ELSE IF Head(sorted).rank >= pair.rank
         THEN <<Head(sorted)>> \o InsertByRank(Tail(sorted), pair)
         ELSE <<pair>> \o sorted

RECURSIVE SortPairs(_)
SortPairs(pairs) ==
    IF pairs = <<>> THEN <<>>
    ELSE InsertByRank(SortPairs(SubSeq(pairs, 1, Len(pairs) - 1)), pairs[Len(pairs)])

ItemOf(pair) == pair.item

SortDescending(seq, Rank(_)) ==
    Map(ItemOf, SortPairs(Map(LAMBDA x : [item |-> x, rank |-> Rank(x)], seq)))

sortStreams(streams) == SortDescending(streams, StreamRank)

(***************************************************************************)
(* addon.js: the catalog handler's grouping, cache keys and metas.         *)
(***************************************************************************)
\* const CACHE_TIMEOUT = 30 * 60 * 1000 (milliseconds)
CACHE_TIMEOUT == 30 * 60 * 1000

\* The unreserved characters encodeURIComponent leaves as they are.
UnreservedMarks == "-_.!~*'()"

HexUpper == "0123456789ABCDEF"

\* encodeURIComponent over printable ASCII.
\* The %XX escape of the character with this code.
Escape(code) ==
    "%" \o CharAt(HexUpper, (code \div 16) + 1) \o CharAt(HexUpper, (code % 16) + 1)

EncodeChar(c) ==
    IF IsWordChar(c) \/ PosIn(c, UnreservedMarks) # 0 THEN c ELSE Escape(PosIn(c, Ascii) + 31)

RECURSIVE encodeURIComponent(_)
encodeURIComponent(s) ==
    IF Len(s) = 0 THEN ""
    ELSE EncodeChar(CharAt(s, 1)) \o encodeURIComponent(SubSeq(s, 2, Len(s)))

\* result.season !== null && result.episode !== null
IsSeries(result) == result.season # NullNum /\ result.episode # NullNum

\* The key the catalog handler groups a Result under.
ContentKey(result) ==
    StripExtension(IF IsSeries(result)
        THEN result.title \o " S" \o padStart2(ToString(result.season))
                          \o "E" \o padStart2(ToString(result.episode))
        ELSE IF result.year # NullNum /\ result.year # 0
             THEN result.title \o " (" \o ToString(result.year) \o ")"
             ELSE result.title)

\* The forEach callback without its early return.
NeverSkipped(result, type) == FALSE

\* The early return of the forEach callback: the Result is not of the requested type.
SkippedForType(result, type) ==
    \/ type = "movie" /\ IsSeries(result)
    \/ type = "series" /\ ~IsSeries(result)

\* Position of key in the groups (a Map in insertion order), 0 if absent.
GroupIndex(groups, key) ==
    IF \E i \in 1..Len(groups) : groups[i].key = key
    THEN CHOOSE i \in 1..Len(groups) : groups[i].key = key
    ELSE 0

\* groupedContent.set(key, {...}) for a key that is not in the groups.
NewGroup(key, result) ==
    [key |-> key, title |-> result.title, year |-> result.year,
     season |-> result.season, episode |-> result.episode,
     type |-> IF IsSeries(result) THEN "series" ELSE "movie",
     streams |-> <<>>, qualities |-> {}]

\* content.streams.push(result); content.qualities.add(result.quality) on the
\* group at position k.
PushToGroup(groups, k, result) ==
    [groups EXCEPT ![k].streams = Append(@, result),
                   ![k].qualities = @ \cup {result.quality}]

\* if (!groupedContent.has(key)) ...: i is the position of key (0: absent).
AddUnderKey(groups, result, key, i) ==
    IF i = 0 THEN PushToGroup(Append(groups, NewGroup(key, result)), Len(groups) + 1, result)
    ELSE PushToGroup(groups, i, result)

\* The forEach callback without the groupedContent.has(key) test: every Result
\* starts a Content of its own.
AddKeyedAlwaysNew(groups, result, key) == AddUnderKey(groups, result, key, 0)

AddKeyed(groups, result, key) == AddUnderKey(groups, result, key, GroupIndex(groups, key))

\* One iteration of results.forEach in the catalog handler.
AddToGroups(groups, result, type) ==
    IF SkippedForType(result, type) THEN groups
    ELSE AddKeyed(groups, result, ContentKey(result))

\* groupedContent after the forEach over results.
RECURSIVE GroupResults(_, _)
GroupResults(results, type) ==
    IF results = <<>> THEN <<>>
    ELSE AddToGroups(GroupResults(SubSeq(results, 1, Len(results) - 1), type),
                     results[Len(results)], type)

CacheKey(key) == "easynews:" \o encodeURIComponent(key)

\* searchCache.set that merges: the new streams are appended to those of the
\* entry already under the key.
CacheSetMerging(cache, key, entry) ==
    [k \in DOMAIN cache \cup {key} |->
        IF k # key THEN cache[k]
        ELSE IF key \in DOMAIN cache
             THEN [streams |-> cache[key].streams \o entry.streams,
                   timestamp |-> entry.timestamp]
             ELSE entry]

\* searchCache.set(key, entry)
CacheSet(cache, key, entry) ==
    [k \in DOMAIN cache \cup {key} |-> IF k = key THEN entry ELSE cache[k]]

\* A cache write that stores the first stream of the group only: a list
\* written in part.
CacheWriteInPart(group) ==
    [key |-> CacheKey(group.key), streams |-> SubSeq(group.streams, 1, 1)]

\* What the "Cache results" loop stores for one group: the cache key and the
\* group's streams.
CacheWrite(group) == [key |-> CacheKey(group.key), streams |-> group.streams]

\* The "Cache results" loop preceded by an eviction of the entries that are no
\* longer fresh.
RECURSIVE CacheWritesEvicting(_, _, _)
CacheWritesEvicting(cache, writes, time) ==
    IF writes = <<>> THEN [k \in {j \in DOMAIN cache : time - cache[j].timestamp < CACHE_TIMEOUT}
                              |-> cache[k]]
    ELSE CacheSet(CacheWritesEvicting(cache, SubSeq(writes, 1, Len(writes) - 1), time),
                  writes[Len(writes)].key,
                  [streams |-> writes[Len(writes)].streams, timestamp |-> time])

\* The "Cache results" loop: every write is stored with the current time.
RECURSIVE CacheWrites(_, _, _)
CacheWrites(cache, writes, time) ==
    IF writes = <<>> THEN cache
    ELSE CacheWrites(CacheSet(cache, Head(writes).key,
                              [streams |-> Head(writes).streams, timestamp |-> time]),
                     Tail(writes), time)

\* One meta of the catalog response. Of the description, the qualities and the
\* number of sources are kept; the poster is left out.
MetaOfGroup(group) ==
    [id          |-> CacheKey(group.key),
     type        |-> group.type,
     name        |-> group.title,
     qualities   |-> group.qualities,
     sources     |-> Len(group.streams),
     releaseInfo |-> IF group.type = "series"
                     THEN "S" \o ToString(group.season) \o " E" \o ToString(group.episode)
                     ELSE IF group.year # NullNum THEN ToString(group.year) ELSE ""]

\* n || 0 for the result of parseInt
OrZero(n) == IF n = NaN THEN 0 ELSE n

\* parseInt(m.releaseInfo) || 0, m one of the metas
MetaYear(m) == OrZero(parseInt(m.releaseInfo))

\* metas after metas.sort by year, descending.
SortedMetas(groups) == SortDescending(Map(MetaOfGroup, groups), MetaYear)

(***************************************************************************)
(* TMDBHandler.getMetadata and the search terms of the stream handler.     *)
(***************************************************************************)
NoMetadata == [title |-> NullStr, name |-> NullStr,
               release_date |-> NullStr, first_air_date |-> NullStr, found |-> FALSE]

\* What the title database answers: to find (by IMDb id) and to movieInfo/tvInfo.
FindAnswers == {"reject", "none", "movie", "tv"}
InfoAnswers == {"reject", "null", "dated", "undated"}

MovieInfo(info) ==
    [title |-> "Movie", name |-> NullStr,
     release_date |-> IF info = "dated" THEN "2019-05-17" ELSE NullStr,
     first_air_date |-> NullStr, found |-> TRUE]

TvInfo(info) ==
    [title |-> NullStr, name |-> "Show Name", release_date |-> NullStr,
     first_air_date |-> IF info = "dated" THEN "2011-04-17" ELSE NullStr, found |-> TRUE]

\* s.split(sep)[n] (n counted from 0), NullStr for undefined.
RECURSIVE SplitPart(_, _, _), SplitAt(_, _, _, _)
SplitPart(s, sep, n) == SplitAt(s, sep, n, IndexFrom(s, sep, 1, FALSE))

\* The same with i the position of the first sep in s (0: none).
SplitAt(s, sep, n, i) ==
    IF n = 0 THEN Before(s, i)
    ELSE IF i = 0 THEN NullStr
    ELSE SplitPart(SubSeq(s, i + 1, Len(s)), sep, n - 1)

Truthy(str) == str # NullStr /\ str # ""

\* getMetadata: every failure inside is caught and becomes null (NoMetadata).
getMetadata(id, type, find, info) ==
    LET isImdb == HasAt(id, 1, "tt", FALSE)
        tmdbId == IF isImdb
                  THEN (IF find \in {"movie", "tv"} THEN "550" ELSE NullStr)
                  ELSE IF HasAt(id, 1, "tmdb-", FALSE) THEN SplitPart(id, "-", 1)
                  ELSE id
        type2  == IF isImdb /\ find = "movie" THEN "movie"
                  ELSE IF isImdb /\ find = "tv" THEN "series"
                  ELSE type
    IN  IF isImdb /\ find = "reject" THEN NoMetadata
        ELSE IF ~Truthy(tmdbId) THEN NoMetadata
        ELSE IF type2 \notin {"movie", "series"} THEN NoMetadata
        ELSE IF info \in {"reject", "null"} THEN NoMetadata
        ELSE IF type2 = "movie" THEN MovieInfo(info) ELSE TvInfo(info)

\* new Date(date).getFullYear() for an ISO date, 0 (falsy) when there is none.
YearOfDate(date) ==
    IF date = NullStr THEN 0 ELSE OrZero(parseInt(SubSeq(date, 1, 4)))

MetadataTitle(metadata) ==
    IF Truthy(metadata.title) THEN metadata.title ELSE metadata.name

MetadataYear(metadata, type) ==
    IF type = "movie" /\ Truthy(metadata.release_date) THEN YearOfDate(metadata.release_date)
    ELSE IF type = "series" /\ Truthy(metadata.first_air_date)
         THEN YearOfDate(metadata.first_air_date)
    ELSE 0

\* `${base} S${season}E${episode}` for a series id with season and episode
EpisodeTerm(base, type, seasonNum, episodeNum, other) ==
    IF type = "series" /\ Truthy(seasonNum) /\ Truthy(episodeNum)
    THEN base \o " S" \o padStart2(seasonNum) \o "E" \o padStart2(episodeNum)
    ELSE other

\* `${title} ${year}` for a movie with a year
MovieTerm(title, type, year) ==
    IF type = "movie" /\ year # 0 THEN title \o " " \o ToString(year) ELSE title

\* The search term the stream handler builds from the metadata.
MetadataSearchTerm(id, type, metadata) ==
    EpisodeTerm(MetadataTitle(metadata), type, SplitPart(id, ":", 1), SplitPart(id, ":", 2),
                MovieTerm(MetadataTitle(metadata), type, MetadataYear(metadata, type)))

\* The search term of handleIdBasedSearch.
IdSearchTerm(id, type) ==
    EpisodeTerm(SplitPart(id, ":", 0), type, SplitPart(id, ":", 1), SplitPart(id, ":", 2),
                SplitPart(id, ":", 0))

\* term.replace(/\.[^/.]+$/, '') unless decoding threw
CleanTerm(term) == IF term = Throw THEN Throw ELSE StripExtension(term)

\* The search term of the stream handler for an easynews: id that is not served
\* from the cache. id.replace('easynews:', '') removes the first occurrence.
CachedIdSearchTerm(id) == CleanTerm(decodeURIComponent(RemoveFirst(id, "easynews:")))

(***************************************************************************)
(* The environment: what the remote index can answer, and the requests     *)
(* that reach the handlers.                                                *)
(***************************************************************************)
ItemShow720 ==
    "<item><enclosure url=\"https://h/dl/Show.Name.S01E01.720p.mkv\" length=\"1 GB\"/></item>"
ItemShow1080 ==
    "<item><enclosure url=\"https://h/dl/Show.Name.S01E01.1080p.mkv\" length=\"2 GB\"/></item>"
ItemMovie4K ==
    "<item><enclosure url=\"https://h/dl/Movie.2019.2160p.mkv\" length=\"20 GB\"/></item>"
\* no length attribute
ItemMovieNoSize ==
    "<item><enclosure url=\"https://h/dl/Movie.2019.mkv\"/></item>"
\* a unit convertToGB does not know
ItemFilmBadUnit ==
    "<item><enclosure url=\"https://h/dl/Other.Film.480p.avi\" length=\"5 XB\"/></item>"
\* no enclosure at all
ItemNoLocator == "<item><title>Show Name</title></item>"
\* a locator that ends in no media file name
ItemNotMedia ==
    "<item><enclosure url=\"https://h/dl/Show.Name.S01E01.nfo\" length=\"1 KB\"/></item>"
\* a file name decodeURIComponent rejects
ItemBadEscape ==
    "<item><enclosure url=\"https://h/dl/Show%ZZName.mkv\" length=\"1 GB\"/></item>"
ItemTooBig ==
    "<item><enclosure url=\"https://h/dl/Big.Movie.1080p.mkv\" length=\"150 GB\"/></item>"

FeedSeries ==
    "<rss>" \o ItemShow720 \o ItemNoLocator \o ItemShow1080 \o ItemNotMedia
            \o ItemMovie4K \o "</rss>"
FeedMovies ==
    "<rss>" \o ItemMovieNoSize \o ItemBadEscape \o ItemMovie4K \o ItemTooBig
            \o ItemFilmBadUnit \o "</rss>"
FeedEmpty == "<rss></rss>"
\* malformed feed text: an item that is never closed
FeedBroken == "<rss><item><enclosure url=\"https://h/dl/Show.Na"

Feeds == {FeedSeries, FeedMovies, FeedEmpty, FeedBroken}

\* f as a table: every value is computed once.
Table(f) == f @@ <<>>

ContentTypes == {"movie", "series"}

\* search on every body of bodies.
SearchOutcomes(bodies) == Table([xml \in bodies |-> search(xml)])

\* One iteration of the while loop of search: the fragment match[1] and what
\* parseXMLItem returns for it.
Iteration(fragment) == [item |-> fragment, result |-> parseXMLItem(fragment)]

\* The iterations of the loop on the body xml: none when the fetch rejected.
Iterations(xml) == IF xml = Throw THEN <<>> ELSE Map(Iteration, ItemFragments(xml))

\* The loop's iterations on every body of bodies.
SearchLoops(bodies) == Table([xml \in bodies |-> Iterations(xml)])

\* The result lists among the outcomes.
ResultLists(outcomes) == {outcomes[xml] : xml \in DOMAIN outcomes} \ {<<Raised>>}

\* What the catalog handler makes of groupedContent: the cache writes, in the
\* order of the groups, and the sorted metas.
CatalogOutput(groups) == [writes |-> Map(CacheWrite, groups), metas |-> SortedMetas(groups)]

\* What the catalog handler makes of the results of its search.
CatalogRun(results, type) == CatalogOutput(GroupResults(results, type))

CatalogRuns(lists) ==
    Table([k \in lists \X ContentTypes |-> CatalogRun(k[1], k[2])])

\* The Result lists a stream response is built from: those search returns and
\* those the catalog handler caches.
StreamLists(lists, runs) ==
    lists \cup UNION {{runs[k].writes[i].streams : i \in 1..Len(runs[k].writes)} :
                        k \in DOMAIN runs}

\* sortStreams(results.map(createStream)) for each of the lists.
Presented(lists) ==
    Table([results \in lists |-> sortStreams(MapCreateStream(results))])

MemoOfRuns(outcomes, lists, runs) ==
    [search    |-> outcomes,
     loops     |-> SearchLoops(DOMAIN outcomes),
     catalog   |-> runs,
     presented |-> Presented(StreamLists(lists, runs))]

MemoOfLists(outcomes, lists) == MemoOfRuns(outcomes, lists, CatalogRuns(lists))

MemoOf(outcomes) == MemoOfLists(outcomes, ResultLists(outcomes))

\* The values of search, of the catalog handler's grouping and of the stream
\* presentation on everything the remote index can answer with.
Memo(bodies) == MemoOf(SearchOutcomes(bodies))

\* The same for the bodies of this environment (Throw: the fetch rejected),
\* computed once.
memo == Memo(Feeds \cup {Throw})

\* One answer of the remote index to one GET: a network error, a status that is
\* not ok, or a body.
RemoteAnswers ==
    {[error |-> TRUE, ok |-> FALSE, text |-> ""],
     [error |-> FALSE, ok |-> FALSE, text |-> ""]}
    \cup {[error |-> FALSE, ok |-> TRUE, text |-> f] : f \in Feeds}

ShowId == "easynews:Show%20Name%20S01E01"
MovieId == "easynews:Movie%20(2019)"

CatalogRequests ==
    {[kind |-> "catalog", type |-> "series", arg |-> "show name"],
     [kind |-> "catalog", type |-> "movie", arg |-> "movie"],
     [kind |-> "catalog", type |-> "movie", arg |-> ""]}

MetaRequests ==
    {[kind |-> "meta", type |-> "series", arg |-> ShowId],
     [kind |-> "meta", type |-> "movie", arg |-> MovieId],
     [kind |-> "meta", type |-> "series", arg |-> MovieId],
     [kind |-> "meta", type |-> "movie", arg |-> "tt0137523"]}

StreamRequests ==
    {[kind |-> "stream", type |-> "series", arg |-> ShowId],
     [kind |-> "stream", type |-> "movie", arg |-> MovieId],
     [kind |-> "stream", type |-> "movie", arg |-> "tt0137523"],
     [kind |-> "stream", type |-> "series", arg |-> "tt0944947:1:2"],
     [kind |-> "stream", type |-> "series", arg |-> "kitsu:1:2"]}

\* Date.now() advances by one of these (milliseconds) between two steps.
Minute == 60 * 1000
ClockSteps == {29 * Minute, 30 * Minute, 31 * Minute}

\* The clock is advanced at most this many times.
MaxTicks == 1

\* tmdbHandler after setConfiguration: the API key has a built-in default, so
\* the handler is always constructed.
tmdbHandler == TRUE

(***************************************************************************)
(* State.                                                                  *)
(***************************************************************************)
VARIABLES
    now,          \* Date.now()
    ticks,        \* how often the clock has been advanced
    searchCache,  \* the Map searchCache: cache key -> [streams, timestamp]
    pc,           \* per handler invocation: where it is suspended
    req,          \* the request it serves
    call,         \* its search call: call site, term, retries left, GETs issued
    meta,         \* the metadata variable of the stream handler
    ret,          \* how its last search call settled: what was fetched, the
                  \* iterations of the parsing loop and what search returned
    resp,         \* its response
    routerCache,       \* server.js: the configuration strings that have a router
    easynewsSearcher,  \* the credentials the current EasynewsSearcher was built with
    easynewsUsername,  \* the globals createStream reads for the Authorization
    easynewsPassword,  \* header of a stream
    auth,         \* per handler invocation: the configuration it was routed
                  \* through, and the credentials of its search's GETs and of
                  \* the header in its streams
    routed        \* per handler invocation: the id segment of the URL its
                  \* request arrived with at server.js, and Date.now() then

vars == <<now, ticks, searchCache, pc, req, call, meta, ret, resp,
          routerCache, easynewsSearcher, easynewsUsername, easynewsPassword, auth,
          routed>>

\* The configuration of the process and what the invocations were served with.
settings ==
    <<routerCache, easynewsSearcher, easynewsUsername, easynewsPassword, auth, routed>>

\* The configurations users install the addon with, and their credentials.
Configurations == {"A", "B"}
CredentialsOf(config) == [username |-> "user" \o config, password |-> "pass" \o config]
NoCredentials == [username |-> NullStr, password |-> NullStr]
NoAuth == [config |-> NullStr, fetch |-> NoCredentials, header |-> NoCredentials]
NoRoute == [segment |-> NullStr, startTime |-> 0]

\* The process once the router of the configuration has been created, with the
\* given handler invocations.
Configured(config, invocations) ==
    /\ routerCache = {config}
    /\ easynewsSearcher = CredentialsOf(config)
    /\ easynewsUsername = CredentialsOf(config).username
    /\ easynewsPassword = CredentialsOf(config).password
    /\ auth = [p \in invocations |-> NoAuth]
    /\ routed = [p \in invocations |-> NoRoute]

NoRequest == [kind |-> "none", type |-> "", arg |-> ""]
NoCall == [site |-> "none", term |-> NullStr, retries |-> 0, requests |-> 0]
NoReturn == [status |-> "none", xml |-> NullStr, items |-> <<>>, results |-> <<>>]
NoResponse == [kind |-> "none", items |-> <<>>, cachedAge |-> NullNum]

EmptyCache == [k \in {} |-> 0]

\* The handler invocations in flight: requests are served one at a time.
Invocations == {"h1"}

Init ==
    /\ now = 0
    /\ ticks = 0
    /\ searchCache = EmptyCache
    /\ pc = [p \in Invocations |-> "idle"]
    /\ req = [p \in Invocations |-> NoRequest]
    /\ call = [p \in Invocations |-> NoCall]
    /\ meta = [p \in Invocations |-> NoMetadata]
    /\ ret = [p \in Invocations |-> NoReturn]
    /\ resp = [p \in Invocations |-> NoResponse]
    /\ Configured("A", Invocations)

(***************************************************************************)
(* Steps. A handler runs from one await to the next without interruption,  *)
(* so each action is one such run.                                         *)
(***************************************************************************)
\* The invocation p goes on with the given position, search call and response.
Proceed(p, position, searchCall, response) ==
    /\ pc' = [pc EXCEPT ![p] = position]
    /\ call' = [call EXCEPT ![p] = searchCall]
    /\ resp' = [resp EXCEPT ![p] = response]

\* return { metas | meta | streams : items }
Respond(p, searchCall, kind, items, age) ==
    Proceed(p, "done", searchCall, [kind |-> kind, items |-> items, cachedAge |-> age])

\* easynewsSearcher.search(term) up to its first await: fetchWithRetry is entered
\* with retries = maxRetries and the first GET is sent.
BeginSearch(p, site, term) ==
    Proceed(p, "fetching",
            [site |-> site, term |-> term, retries |-> maxRetries, requests |-> 1],
            NoResponse)

\* const streams = sortStreams(results.map(createStream)); return { streams }
RespondStreams(p, searchCall, results, age) ==
    Respond(p, searchCall, "streams", memo.presented[results], age)

\* A new request starts in a free invocation: its locals are fresh.
Fresh(p, request) ==
    /\ pc[p] \in {"idle", "done"}
    /\ req' = [req EXCEPT ![p] = request]
    /\ meta' = [meta EXCEPT ![p] = NoMetadata]
    /\ ret' = [ret EXCEPT ![p] = NoReturn]

\* builder.defineCatalogHandler, up to the await of search.
CatalogRequest(p, request) ==
    /\ Fresh(p, request)
    /\ IF ~Truthy(request.arg)
       THEN Respond(p, NoCall, "metas", <<>>, NullNum)
       ELSE BeginSearch(p, "catalog", request.arg)
    /\ UNCHANGED <<now, ticks, searchCache>>

\* The meta the meta handler builds from the first cached Result; <<>> when
\* result.season.toString() throws (the handler's catch returns meta: null).
CachedMeta(id, type, result) ==
    IF type = "series" /\ (result.season = NullNum \/ result.episode = NullNum)
    THEN <<>>
    ELSE <<[id   |-> id,
            type |-> type,
            name |-> IF type = "series"
                     THEN result.title \o " S" \o padStart2(ToString(result.season))
                                       \o "E" \o padStart2(ToString(result.episode))
                     ELSE result.title,
            year |-> IF result.year = 0 THEN NullNum ELSE result.year]>>

\* The cache entry the meta handler answers from: any entry with streams.
MetaUsesCache(cache, id) == id \in DOMAIN cache /\ Len(cache[id].streams) > 0

\* builder.defineMetaHandler: it awaits nothing.
MetaRequest(p, request) ==
    LET id   == request.arg
        term == CachedIdSearchTerm(id)
    IN  /\ Fresh(p, request)
        /\ IF ~HasAt(id, 1, "easynews:", FALSE) \/ decodeURIComponent(Cut(id, 1, 9)) = Throw
           THEN Respond(p, NoCall, "meta", <<>>, NullNum)
           ELSE IF MetaUsesCache(searchCache, id)
                THEN Respond(p, NoCall, "meta",
                             CachedMeta(id, request.type, searchCache[id].streams[1]),
                             now - searchCache[id].timestamp)
                ELSE Respond(p, NoCall, "meta",
                             <<[id |-> id, type |-> request.type,
                                name |-> decodeURIComponent(Cut(id, 1, 9)),
                                year |-> NullNum]>>,
                             NullNum)
        /\ UNCHANGED <<now, ticks, searchCache>>

\* The freshness test with <= in the place of <.
IsFreshInclusive(cache, id, time) ==
    id \in DOMAIN cache /\ time - cache[id].timestamp <= CACHE_TIMEOUT

\* cached && (Date.now() - cached.timestamp) < CACHE_TIMEOUT
IsFresh(cache, id, time) ==
    id \in DOMAIN cache /\ time - cache[id].timestamp < CACHE_TIMEOUT

\* The stream handler sorting cached.streams itself (results.sort in place)
\* before it maps them to streams.
StreamRequestSortingInPlace(p, request) ==
    LET id == request.arg
    IN  /\ Fresh(p, request)
        /\ IF HasAt(id, 1, "easynews:", FALSE)
           THEN IF IsFresh(searchCache, id, now)
                THEN /\ RespondStreams(p, NoCall, searchCache[id].streams,
                                       now - searchCache[id].timestamp)
                     /\ searchCache' =
                            [searchCache EXCEPT ![id].streams =
                                SortDescending(@, LAMBDA x : StreamRank(createStream(x)))]
                ELSE /\ UNCHANGED searchCache
                     /\ IF CachedIdSearchTerm(id) = Throw
                        THEN Respond(p, NoCall, "streams", <<>>, NullNum)
                        ELSE BeginSearch(p, "cached", CachedIdSearchTerm(id))
           ELSE /\ UNCHANGED searchCache
                /\ IF (HasAt(id, 1, "tt", FALSE) \/ HasAt(id, 1, "tmdb", FALSE)) /\ tmdbHandler
                   THEN Proceed(p, "metadata", NoCall, NoResponse)
                   ELSE BeginSearch(p, "id", IdSearchTerm(id, request.type))
        /\ UNCHANGED <<now, ticks>>

\* builder.defineStreamHandler, up to its first await (or to its return).
StreamRequest(p, request) ==
    LET id == request.arg
    IN  /\ Fresh(p, request)
        /\ IF HasAt(id, 1, "easynews:", FALSE)
           THEN IF IsFresh(searchCache, id, now)
                THEN RespondStreams(p, NoCall, searchCache[id].streams,
                                    now - searchCache[id].timestamp)
                ELSE IF CachedIdSearchTerm(id) = Throw
                     THEN Respond(p, NoCall, "streams", <<>>, NullNum)
                     ELSE BeginSearch(p, "cached", CachedIdSearchTerm(id))
           ELSE IF (HasAt(id, 1, "tt", FALSE) \/ HasAt(id, 1, "tmdb", FALSE)) /\ tmdbHandler
                THEN Proceed(p, "metadata", NoCall, NoResponse)
                ELSE BeginSearch(p, "id", IdSearchTerm(id, request.type))
        /\ UNCHANGED <<now, ticks, searchCache>>

\* getMetadata returns to the stream handler, which runs to its next await.
MetadataReturns(p) ==
    /\ pc[p] = "metadata"
    /\ \E find \in FindAnswers, info \in InfoAnswers :
          LET metadata == getMetadata(SplitPart(req[p].arg, ":", 0), req[p].type, find, info)
          IN  /\ meta' = [meta EXCEPT ![p] = metadata]
              /\ IF ~metadata.found
                 THEN Respond(p, NoCall, "streams", <<>>, NullNum)
                 ELSE BeginSearch(p, "tmdb",
                                  MetadataSearchTerm(req[p].arg, req[p].type, metadata))
    /\ UNCHANGED <<now, ticks, searchCache, req, ret>>

\* search has settled on xml, known being the values of the pure parts: the
\* handler that awaited it runs to its next await or to its end.
SearchSettles(p, xml, known) ==
    LET out     == known.search[xml]
        raised  == out = <<Raised>>
        results == IF raised THEN <<>> ELSE out
        r       == req[p]
        site    == call[p].site
        run     == known.catalog[<<results, r.type>>]
    IN  /\ ret' = [ret EXCEPT ![p] = [status  |-> IF raised THEN "raised" ELSE "returned",
                                      xml     |-> xml,
                                      items   |-> known.loops[xml],
                                      results |-> results]]
        /\ IF site = "catalog"
           THEN IF raised \/ Len(results) = 0
                THEN /\ Respond(p, call[p], "metas", <<>>, NullNum)
                     /\ UNCHANGED searchCache
                ELSE /\ searchCache' = CacheWrites(searchCache, run.writes, now)
                     /\ Respond(p, call[p], "metas", run.metas, NullNum)
           ELSE /\ UNCHANGED searchCache
                /\ IF site \in {"tmdb", "title"} /\ raised
                   THEN BeginSearch(p, "id", IdSearchTerm(r.arg, r.type))
                   ELSE IF raised
                   THEN Respond(p, call[p], "streams", <<>>, NullNum)
                   ELSE IF /\ site = "tmdb"
                           /\ Len(results) = 0
                           /\ r.type = "movie"
                           /\ MetadataYear(meta[p], r.type) # 0
                   THEN BeginSearch(p, "title", MetadataTitle(meta[p]))
                   ELSE RespondStreams(p, call[p], results, NullNum)
        /\ UNCHANGED <<now, ticks, req, meta>>

\* fetchWithRetry has settled with xml (Throw: it rejected): search returns (or
\* throws).
Settle(p, xml) == SearchSettles(p, xml, memo)

\* fetchWithRetry that still retries when no retries are left (retries >= 0).
FetchFailsRetryingAtZero(p) ==
    /\ pc[p] = "fetching"
    /\ \E answer \in RemoteAnswers :
          /\ fetchEasynewsRssFeed(answer) = Throw
          /\ IF call[p].retries >= 0
             THEN /\ pc' = [pc EXCEPT ![p] = "delaying"]
                  /\ UNCHANGED <<now, ticks, searchCache, req, call, meta, ret, resp>>
             ELSE Settle(p, Throw)

\* One GET of fetchEasynewsRssFeed fails: fetchWithRetry waits for the retry
\* delay if retries are left and rejects otherwise.
FetchFails(p) ==
    /\ pc[p] = "fetching"
    /\ \E answer \in RemoteAnswers :
          /\ fetchEasynewsRssFeed(answer) = Throw
          /\ IF call[p].retries > 0
             THEN /\ pc' = [pc EXCEPT ![p] = "delaying"]
                  /\ UNCHANGED <<now, ticks, searchCache, req, call, meta, ret, resp>>
             ELSE Settle(p, Throw)

\* The retry that passes its budget on unchanged: fetchWithRetry(fetchFunction,
\* retries).
RetryDelayElapsedSameBudget(p) ==
    /\ pc[p] = "delaying"
    /\ pc' = [pc EXCEPT ![p] = "fetching"]
    /\ call' = [call EXCEPT ![p].requests = @ + 1]
    /\ UNCHANGED <<now, ticks, searchCache, req, meta, ret, resp>>

\* The retry delay has elapsed: fetchWithRetry(fetchFunction, retries - 1) sends
\* the next GET.
RetryDelayElapsed(p) ==
    /\ pc[p] = "delaying"
    /\ pc' = [pc EXCEPT ![p] = "fetching"]
    /\ call' = [call EXCEPT ![p].retries = @ - 1, ![p].requests = @ + 1]
    /\ UNCHANGED <<now, ticks, searchCache, req, meta, ret, resp>>

\* One GET succeeds: fetchWithRetry resolves with the body.
FetchSucceeds(p) ==
    /\ pc[p] = "fetching"
    /\ \E answer \in RemoteAnswers :
          /\ fetchEasynewsRssFeed(answer) # Throw
          /\ Settle(p, fetchEasynewsRssFeed(answer))

\* Time passes.
Tick ==
    /\ ticks < MaxTicks
    /\ \E d \in ClockSteps : now' = now + d
    /\ ticks' = ticks + 1
    /\ UNCHANGED <<searchCache, pc, req, call, meta, ret, resp>>

\* The process serves one configuration: no step changes the settings.
Next ==
    \/ \E p \in DOMAIN pc, r \in CatalogRequests : CatalogRequest(p, r) /\ UNCHANGED settings
    \/ \E p \in DOMAIN pc, r \in MetaRequests : MetaRequest(p, r) /\ UNCHANGED settings
    \/ \E p \in DOMAIN pc, r \in StreamRequests : StreamRequest(p, r) /\ UNCHANGED settings
    \/ \E p \in DOMAIN pc : MetadataReturns(p) /\ UNCHANGED settings
    \/ \E p \in DOMAIN pc : FetchFails(p) /\ UNCHANGED settings
    \/ \E p \in DOMAIN pc : RetryDelayElapsed(p) /\ UNCHANGED settings
    \/ \E p \in DOMAIN pc : FetchSucceeds(p) /\ UNCHANGED settings
    \/ Tick /\ UNCHANGED settings

Spec == Init /\ [][Next]_vars

(***************************************************************************)
(* The claims of the specification, as properties of the handlers' runs.   *)
(***************************************************************************)
\* C1: search never raises to its caller. However the fetches fail and whatever
\* the feed holds (malformed text, an item that fails to parse), search
\* returns a list of Results, and the empty list when every fetch attempt
\* failed.
C1_SearchNeverRaises ==
    \A p \in DOMAIN ret :
        /\ ret[p].status # "raised"
        /\ \A i \in 1..Len(ret[p].results) : ret[p].results[i] \notin {NoResult, Raised}
        /\ ret[p].xml = Throw => ret[p].results = <<>>

\* A search call has returned after every one of its fetch attempts failed.
C1_AllAttemptsFailed ==
    \E p \in DOMAIN ret :
        /\ pc[p] = "done"
        /\ ret[p].status = "returned"
        /\ ret[p].xml = Throw
        /\ call[p].requests = maxRetries + 1

\* C2, as amended: one search call requests the remote index at most
\* maxRetries + 1 times (the first attempt and maxRetries retries), and when
\* every attempt fails the failure reaches search after exactly that many.
C2_RequestsBounded ==
    \A p \in DOMAIN call :
        /\ call[p].requests <= maxRetries + 1
        /\ (pc[p] = "done" /\ ret[p].xml = Throw) => call[p].requests = maxRetries + 1

\* The last attempt of a search call is in flight: no retries are left.
C2_LastAttempt ==
    \E p \in DOMAIN call :
        pc[p] = "fetching" /\ call[p].retries = 0 /\ call[p].requests = maxRetries + 1

\* C2, as stated: during one search call in which every fetch attempt fails,
\* the remote index is requested at most maxRetries times in total.
C2_AtMostMaxRetriesRequests ==
    \A p \in DOMAIN call : call[p].requests <= maxRetries

\* The quality createStream tags a stream with ("easynews-<quality>").
QualityOf(stream) == SubSeq(stream.bingeGroup, 10, Len(stream.bingeGroup))

\* C3: the stream list returned by a stream request is sorted descending by
\* quality rank (4K=5, 1080p=4, 720p=3, 480p=2, SD=1): no stream of lower rank
\* precedes a stream of higher rank.
C3_StreamsSortedByRank ==
    \A p \in DOMAIN resp :
        resp[p].kind = "streams" =>
            \A i, j \in 1..Len(resp[p].items) :
                i < j => qualityOrder(QualityOf(resp[p].items[i]))
                             >= qualityOrder(QualityOf(resp[p].items[j]))

\* C4: a cache entry is fresh exactly while now - T < 30 minutes. A stream
\* request for a cached key is served from the cache only at an age below
\* CACHE_TIMEOUT, and it runs a fresh search only at an age of CACHE_TIMEOUT
\* or more (so also at exactly 30 minutes); it does one or the other.
C4_FreshWithinWindow ==
    \A p \in DOMAIN req :
        (req[p].kind = "stream" /\ req[p].arg \in DOMAIN searchCache) =>
            \/ /\ call[p] = NoCall
               /\ resp[p].kind = "streams"
               /\ resp[p].cachedAge # NullNum
               /\ resp[p].cachedAge < CACHE_TIMEOUT
               /\ Len(resp[p].items) = Len(searchCache[req[p].arg].streams)
            \/ /\ call[p].site = "cached"
               /\ resp[p].cachedAge = NullNum
               /\ now - searchCache[req[p].arg].timestamp >= CACHE_TIMEOUT

\* A stream request finds its entry exactly 30 minutes old and searches.
C4_ExactlyThirtyMinutes ==
    \E p \in DOMAIN req :
        /\ req[p].kind = "stream"
        /\ req[p].arg \in DOMAIN searchCache
        /\ pc[p] = "fetching"
        /\ call[p].site = "cached"
        /\ now - searchCache[req[p].arg].timestamp = CACHE_TIMEOUT

\* C5: no handler answers from a stale cache entry. Whenever a handler (stream
\* or meta) builds its response from a cache entry, the entry's age is below
\* CACHE_TIMEOUT.
C5_NoStaleAnswer ==
    \A p \in DOMAIN resp :
        resp[p].cachedAge # NullNum => resp[p].cachedAge < CACHE_TIMEOUT

\* C6: a stale hit is superseded by the search it triggers. When the search a
\* stream request runs for a key with a stale entry returns Results, the entry
\* under the key is overwritten with the current time.
C6_StaleHitSuperseded ==
    [][\A p \in DOMAIN pc :
          (/\ req[p].kind = "stream"
           /\ call[p].site = "cached"
           /\ req[p].arg \in DOMAIN searchCache
           /\ pc[p] = "fetching"
           /\ pc'[p] = "done"
           /\ Len(ret'[p].results) > 0)
              => searchCache'[req[p].arg].timestamp = now]_vars

\* C7: a failure of the metadata collaborator never aborts stream resolution.
\* A stream request with a tt/tmdb identifier for which getMetadata yields no
\* metadata ends only after a search with the identifier-derived term.
C7_FallsBackToIdSearch ==
    \A p \in DOMAIN pc :
        (/\ req[p].kind = "stream"
         /\ HasAt(req[p].arg, 1, "tt", FALSE) \/ HasAt(req[p].arg, 1, "tmdb", FALSE)
         /\ pc[p] = "done"
         /\ ~meta[p].found)
            => /\ call[p].site = "id"
               /\ call[p].term = IdSearchTerm(req[p].arg, req[p].type)

\* The catalog handler has answered a search that returned Results.
CatalogAnswered(p) ==
    /\ req[p].kind = "catalog"
    /\ pc[p] = "done"
    /\ call[p].site = "catalog"
    /\ ret[p].status = "returned"
    /\ Len(ret[p].results) > 0

\* A Result is of the kind: series when season and episode are both present,
\* movie otherwise.
OfKind(result, kind) ==
    (kind = "series") <=> (result.season # NullNum /\ result.episode # NullNum)

\* The Results of the kind among results, in order.
Wanted(results, kind) == SelectSeq(results, LAMBDA x : OfKind(x, kind))

\* The Results among results whose derived key is stored under id, in order.
StoredUnder(results, id) == SelectSeq(results, LAMBDA x : CacheKey(ContentKey(x)) = id)

\* C8: grouping puts every Result of the requested kind into exactly one
\* Content, the one under the Result's derived key. There is one Content per
\* key; it lists the Results of that key, and only those, in discovery order;
\* and its quality set is the set of the qualities of its Results.
C8_GroupedByKey ==
    \A p \in DOMAIN pc :
        CatalogAnswered(p) =>
            /\ \A k1, k2 \in 1..Len(resp[p].items) :
                  resp[p].items[k1].id = resp[p].items[k2].id => k1 = k2
            /\ \A i \in 1..Len(Wanted(ret[p].results, req[p].type)) :
                  \E k \in 1..Len(resp[p].items) :
                      resp[p].items[k].id
                          = CacheKey(ContentKey(Wanted(ret[p].results, req[p].type)[i]))
            /\ \A k \in 1..Len(resp[p].items) :
                  /\ searchCache[resp[p].items[k].id].streams
                        = StoredUnder(Wanted(ret[p].results, req[p].type), resp[p].items[k].id)
                  /\ resp[p].items[k].qualities
                        = {x.quality : x \in Range(searchCache[resp[p].items[k].id].streams)}
                  /\ resp[p].items[k].sources = Len(searchCache[resp[p].items[k].id].streams)

\* Two Results of one key are grouped: the 720p and the 1080p file of Show Name
\* S01E01 are in one Content.
C8_TwoFilesOneContent ==
    \E p \in DOMAIN pc :
        /\ CatalogAnswered(p)
        /\ \E k \in 1..Len(resp[p].items) :
              /\ resp[p].items[k].sources = 2
              /\ resp[p].items[k].qualities = {"1080p", "720p"}

\* C9: Results are filtered to the requested kind before grouping and caching.
\* Every Content of a catalog answer is of the requested type, and every Result
\* cached for it is of that kind.
C9_FilteredToKind ==
    \A p \in DOMAIN pc :
        CatalogAnswered(p) =>
            \A k \in 1..Len(resp[p].items) :
                /\ resp[p].items[k].type = req[p].type
                /\ \A x \in Range(searchCache[resp[p].items[k].id].streams) :
                      OfKind(x, req[p].type)

\* A movie catalog has answered a search that also returned episodes.
C9_MixedResults ==
    \E p \in DOMAIN pc :
        /\ CatalogAnswered(p)
        /\ req[p].type = "movie"
        /\ Len(resp[p].items) > 0
        /\ \E x \in Range(ret[p].results) : ~OfKind(x, "movie")

\* The locator (enclosure url) and the declared size (length) of a feed item,
\* NullStr when the item has none.
LocatorOf(item) == QuotedAfter(item, "<enclosure url=\"")
DeclaredSize(item) == QuotedAfter(item, "length=\"")

\* The locator url ends in a segment with a known media extension.
NamesMedia(url) ==
    \E ext \in {"mkv", "mp4", "avi", "ts"} :
        /\ HasAt(url, Len(url) - Len(ext), "." \o ext, TRUE)
        /\ \E i \in 1..(Len(url) - Len(ext) - 2) : CharAt(url, i) = "/"
        /\ CharAt(url, Len(url) - Len(ext) - 1) # "/"

\* The ways a feed item can be malformed, and whether its file name is plain
\* (no escape to decode, no sample, declared size not above the limit).
FactsOf(item, url, size) ==
    [noLocator   |-> url = NullStr,
     noMedia     |-> url # NullStr /\ ~NamesMedia(url),
     sizeMissing |-> size = NullStr,
     sizeInvalid |-> size # NullStr /\ SizeUnit(size) \notin {"kb", "mb", "gb", "tb"},
     plain       |-> url # NullStr /\ ~Contains(url, "%", FALSE)
                                   /\ ~Contains(url, "&", FALSE)
                                   /\ ~Contains(url, "sample", TRUE)]

\* The items of the feeds of this environment.
FeedItems == UNION {Range(ItemFragments(xml)) : xml \in Feeds}

ItemFacts == Table([item \in FeedItems |-> FactsOf(item, LocatorOf(item), DeclaredSize(item))])

\* C10, as amended: an item without a locator, or whose locator does not end
\* in a segment with a known media extension, is skipped without an error; an
\* item whose size is missing or has an unknown unit is not skipped for that:
\* with a plain media file name it yields a Result, of size '0 B' when the
\* size is missing and of the declared size otherwise. No item raises an error.
C10_MalformedItems ==
    \A p \in DOMAIN ret :
        \A i \in 1..Len(ret[p].items) :
            /\ ret[p].items[i].result # Raised
            /\ (\/ ItemFacts[ret[p].items[i].item].noLocator
                \/ ItemFacts[ret[p].items[i].item].noMedia)
                  => ret[p].items[i].result = NoResult
            /\ (/\ ItemFacts[ret[p].items[i].item].plain
                /\ ~ItemFacts[ret[p].items[i].item].noMedia
                /\ ItemFacts[ret[p].items[i].item].sizeMissing)
                  => /\ ret[p].items[i].result # NoResult
                     /\ ret[p].items[i].result.fileSize = "0 B"
            /\ (/\ ItemFacts[ret[p].items[i].item].plain
                /\ ~ItemFacts[ret[p].items[i].item].noMedia
                /\ ItemFacts[ret[p].items[i].item].sizeInvalid)
                  => /\ ret[p].items[i].result # NoResult
                     /\ ret[p].items[i].result.fileSize
                            = DeclaredSize(ret[p].items[i].item)

\* search has parsed a feed that holds an item without a locator and an item
\* whose locator names no media file, and has returned.
C10_SkippedItems ==
    \E p \in DOMAIN ret :
        /\ ret[p].status = "returned"
        /\ \E i \in 1..Len(ret[p].items) :
              ItemFacts[ret[p].items[i].item].noLocator /\ ret[p].items[i].result = NoResult
        /\ \E i \in 1..Len(ret[p].items) :
              ItemFacts[ret[p].items[i].item].noMedia /\ ret[p].items[i].result = NoResult

\* C10, as stated: a feed item that has no locator, whose locator has no
\* trailing segment with a known media extension, or whose declared size is
\* missing or invalid produces no Result and raises no error.
C10_MalformedSkipped ==
    \A p \in DOMAIN ret :
        \A i \in 1..Len(ret[p].items) :
            (\/ ItemFacts[ret[p].items[i].item].noLocator
             \/ ItemFacts[ret[p].items[i].item].noMedia
             \/ ItemFacts[ret[p].items[i].item].sizeMissing
             \/ ItemFacts[ret[p].items[i].item].sizeInvalid)
                => ret[p].items[i].result = NoResult

(***************************************************************************)
(* The Feed Item Parser on its own: search is applied to a feed of one     *)
(* item, drawn from the items below.                                       *)
(***************************************************************************)
\* The item whose enclosure names the file and declares the size.
ItemOfFile(filename, size) ==
    "<enclosure url=\"https://h/dl/" \o filename \o "\" length=\"" \o size \o "\"/>"

FeedOfItem(item) == "<rss><item>" \o item \o "</item></rss>"

\* Declared sizes: an amount in tenths of the unit.
SizeCases ==
    {[tenths |-> t, unit |-> "GB"] : t \in {0, 5, 990, 999, 1000, 1001, 1010, 1500}}
    \cup {[tenths |-> t, unit |-> "gb"] : t \in {1000, 1500}}
    \cup {[tenths |-> t, unit |-> "TB"] : t \in {0, 1, 5, 10, 20}}
    \cup {[tenths |-> t, unit |-> "MB"] : t \in {7000, 1024000, 1024001, 1024010}}
    \cup {[tenths |-> t, unit |-> "KB"] : t \in {10, 1048576000, 1048576010}}

\* The text of the amount: "150", "99.9"
AmountText(tenths) ==
    ToString(tenths \div 10)
        \o (IF tenths % 10 = 0 THEN "" ELSE "." \o ToString(tenths % 10))

SizeText(c) == AmountText(c.tenths) \o " " \o c.unit

SizeFeed(c) == FeedOfItem(ItemOfFile("Movie.2019.mkv", SizeText(c)))

SizeFeeds == {SizeFeed(c) : c \in SizeCases}

\* SxxEyy tokens: season and episode numbers, written with 1 or 2 digits, in
\* upper or lower case.
EpisodeCases ==
    {[season |-> s, episode |-> e, width |-> w, lower |-> l] :
        s \in {0, 1, 5, 12}, e \in {0, 2, 12}, w \in {1, 2}, l \in BOOLEAN}

\* n written with at least width digits
NumberText(n, width) == IF width = 2 /\ n < 10 THEN "0" \o ToString(n) ELSE ToString(n)

EpisodeToken(c) ==
    (IF c.lower THEN "s" ELSE "S") \o NumberText(c.season, c.width)
        \o (IF c.lower THEN "e" ELSE "E") \o NumberText(c.episode, c.width)

EpisodeFeed(c) ==
    FeedOfItem(ItemOfFile("Show.Name." \o EpisodeToken(c) \o ".720p.mkv", "1 GB"))

EpisodeFeeds == {EpisodeFeed(c) : c \in EpisodeCases}

\* Quality tokens of file names, each with the group whose pattern it is
\* written for ("SD": none; HDTV and SDTV are excluded by /HD(?!TV)/ and /SD\b/).
QualityMarks ==
    {[text |-> "2160p", quality |-> "4K"],
     [text |-> "uhd", quality |-> "4K"],
     [text |-> "Ultra.HD", quality |-> "4K"],
     [text |-> "1080p", quality |-> "1080p"],
     [text |-> "1080i", quality |-> "1080p"],
     [text |-> "FullHD", quality |-> "1080p"],
     [text |-> "720P", quality |-> "720p"],
     [text |-> "HD", quality |-> "720p"],
     [text |-> "480p", quality |-> "480p"],
     [text |-> "SD", quality |-> "480p"],
     [text |-> "HDTV", quality |-> "SD"],
     [text |-> "SDTV", quality |-> "SD"],
     [text |-> "x264", quality |-> "SD"]}

\* File names with two tokens.
QualityCases ==
    {<<a, b>> : a \in {m \in QualityMarks : m.text \in {"2160p", "1080p", "720P", "HD", "480p",
                                                          "SD", "HDTV", "x264"}},
                b \in QualityMarks}

QualityFeed(c) ==
    FeedOfItem(ItemOfFile("Movie." \o c[1].text \o "." \o c[2].text \o ".mkv", "1 GB"))

QualityFeeds == {QualityFeed(c) : c \in QualityCases}

\* The feeds the parser is applied to.
ParserFeeds == SizeFeeds \cup EpisodeFeeds \cup QualityFeeds

\* search and the iterations of its loop on every body of bodies.
ParserMemo(bodies) == [search |-> SearchOutcomes(bodies), loops |-> SearchLoops(bodies)]

parsed == ParserMemo(ParserFeeds)

\* One search is to be run on one of the feeds.
ParserInit ==
    /\ now = 0
    /\ ticks = 0
    /\ searchCache = EmptyCache
    /\ pc = [p \in Invocations |-> "idle"]
    /\ \E xml \in ParserFeeds :
          req = [p \in Invocations |-> [kind |-> "search", type |-> "", arg |-> xml]]
    /\ call = [p \in Invocations |-> NoCall]
    /\ meta = [p \in Invocations |-> NoMetadata]
    /\ ret = [p \in Invocations |-> NoReturn]
    /\ resp = [p \in Invocations |-> NoResponse]
    /\ Configured("A", Invocations)

\* search runs on the feed, known being the values of its pure parts.
SearchRuns(p, xml, known) ==
    /\ pc[p] = "idle"
    /\ pc' = [pc EXCEPT ![p] = "done"]
    /\ ret' = [ret EXCEPT ![p] =
                  [status  |-> IF known.search[xml] = <<Raised>> THEN "raised" ELSE "returned",
                   xml     |-> xml,
                   items   |-> known.loops[xml],
                   results |-> IF known.search[xml] = <<Raised>> THEN <<>> ELSE known.search[xml]]]
    /\ UNCHANGED <<now, ticks, searchCache, req, call, meta, resp>>

ParseFeed(p) == req[p].kind = "search" /\ SearchRuns(p, req[p].arg, parsed)

ParserNext == \E p \in DOMAIN pc : ParseFeed(p) /\ UNCHANGED settings

ParserSpec == ParserInit /\ [][ParserNext]_vars

\* The declared size is above 100 units of a gigabyte (1 GB = 1024 MB, ...).
OverLimit(c) ==
    CASE toLowerCase(c.unit) = "kb" -> c.tenths > 1000 * 1024 * 1024
      [] toLowerCase(c.unit) = "mb" -> c.tenths > 1000 * 1024
      [] toLowerCase(c.unit) = "gb" -> c.tenths > 1000
      [] toLowerCase(c.unit) = "tb" -> c.tenths * 1024 > 1000 * 1

\* C11: the size filter excludes exactly the oversized items. With
\* maxFileSize = 100, an item whose declared size is above 100 GB yields no
\* Result, and an otherwise valid item whose declared size is at most 100 GB
\* yields a Result with that size.
C11_SizeFilter ==
    \A p \in DOMAIN pc :
        pc[p] = "done" =>
            \A c \in SizeCases :
                ret[p].xml = SizeFeed(c) =>
                    IF OverLimit(c)
                    THEN ret[p].results = <<>>
                    ELSE /\ Len(ret[p].results) = 1
                         /\ ret[p].results[1].fileSize = SizeText(c)

\* search has dropped the item of 150 GB.
C11_OversizedDropped ==
    \E p \in DOMAIN pc :
        /\ pc[p] = "done"
        /\ ret[p].xml = SizeFeed([tenths |-> 1500, unit |-> "GB"])
        /\ Len(ret[p].items) = 1
        /\ ret[p].items[1].result = NoResult

\* C12: for every filename whose title part holds an SxxEyy token (1 or 2
\* digits each, any letter case, season or episode 0 included), extraction
\* records season = xx and episode = yy as integers and the token is absent
\* from the derived title.
C12_EpisodeTokenExtracted ==
    \A p \in DOMAIN pc :
        pc[p] = "done" =>
            \A c \in EpisodeCases :
                ret[p].xml = EpisodeFeed(c) =>
                    /\ Len(ret[p].results) = 1
                    /\ ret[p].results[1].season = c.season
                    /\ ret[p].results[1].episode = c.episode
                    /\ ~Contains(ret[p].results[1].title, EpisodeToken(c), TRUE)

\* The same for the tokens whose season and episode are both above 0; for the
\* others the numbers are recorded and the token stays in the title.
EpisodeTokenPositive ==
    \A p \in DOMAIN pc :
        pc[p] = "done" =>
            \A c \in EpisodeCases :
                ret[p].xml = EpisodeFeed(c) =>
                    /\ Len(ret[p].results) = 1
                    /\ ret[p].results[1].season = c.season
                    /\ ret[p].results[1].episode = c.episode
                    /\ Contains(ret[p].results[1].title, EpisodeToken(c), TRUE)
                           <=> (c.season = 0 \/ c.episode = 0)

\* The resolution order of the quality groups.
Resolution(quality) ==
    CASE quality = "4K" -> 4 [] quality = "1080p" -> 3 [] quality = "720p" -> 2
      [] quality = "480p" -> 1 [] quality = "SD" -> 0

\* The higher of two qualities.
Higher(q1, q2) == IF Resolution(q1) >= Resolution(q2) THEN q1 ELSE q2

\* C13: quality inference yields one of 4K, 1080p, 720p, 480p, SD and takes
\* the highest-resolution group that matches: a file name with tokens of
\* several groups gets the highest of them, and one with no token of any
\* group gets SD.
C13_HighestQuality ==
    \A p \in DOMAIN pc :
        pc[p] = "done" =>
            /\ \A i \in 1..Len(ret[p].results) : ret[p].results[i].quality \in Qualities
            /\ \A c \in QualityCases :
                   ret[p].xml = QualityFeed(c) =>
                       /\ Len(ret[p].results) = 1
                       /\ ret[p].results[1].quality = Higher(c[1].quality, c[2].quality)

\* search has classified Movie.1080p.2160p.mkv (as 4K).
C13_TwoGroupsMatch ==
    \E p \in DOMAIN pc :
        /\ pc[p] = "done"
        /\ Len(ret[p].results) = 1
        /\ ret[p].results[1].filename = "Movie.1080p.2160p.mkv"
        /\ ret[p].results[1].quality = "4K"

\* C17: in every Result the Feed Item Parser produces, season and episode are
\* both present or both absent.
C17_SeasonWithEpisode ==
    \A p \in DOMAIN ret :
        \A i \in 1..Len(ret[p].items) :
            ret[p].items[i].result # NoResult =>
                (ret[p].items[i].result.season = NullNum
                    <=> ret[p].items[i].result.episode = NullNum)

\* The parser has produced a Result for a file of season 1, episode 0: both
\* are present.
C17_EpisodeZeroPresent ==
    \E p \in DOMAIN ret :
        /\ Len(ret[p].items) = 1
        /\ ret[p].items[1].result # NoResult
        /\ ret[p].items[1].result.season = 1
        /\ ret[p].items[1].result.episode = 0

\* C14: cache writes are last-write-wins with no merge. When a catalog search
\* completes, the entry under every key it produced holds exactly that search's
\* Results for the key and the time of the write, and the entries under all
\* other keys are as they were.
C14_LastWriteWins ==
    [][\A p \in DOMAIN pc :
          (/\ call[p].site = "catalog"
           /\ pc[p] = "fetching"
           /\ pc'[p] = "done")
              => /\ \A k \in 1..Len(resp'[p].items) :
                       searchCache'[resp'[p].items[k].id]
                         = [streams   |-> StoredUnder(Wanted(ret'[p].results, req[p].type),
                                                      resp'[p].items[k].id),
                            timestamp |-> now]
                 /\ \A id \in DOMAIN searchCache' :
                       (\A k \in 1..Len(resp'[p].items) : resp'[p].items[k].id # id)
                           => id \in DOMAIN searchCache /\ searchCache'[id] = searchCache[id]]_vars

\* A later catalog search has overwritten an entry: "Other Film" was cached at
\* time 0 by a search that also cached two files under "Movie (2019)", and the
\* entry under "Movie (2019)" now holds the one file of a search made later.
C14_EntryOverwritten ==
    \E p \in DOMAIN pc :
        /\ CatalogAnswered(p)
        /\ "easynews:Other%20Film" \in DOMAIN searchCache
        /\ searchCache["easynews:Other%20Film"].timestamp = 0
        /\ MovieId \in DOMAIN searchCache
        /\ searchCache[MovieId].timestamp = now
        /\ now > 0
        /\ Len(searchCache[MovieId].streams) = 1

\* C15: cache entries are never evicted. No step removes a key from the cache.
C15_KeysOnlyGrow ==
    [][DOMAIN searchCache \subseteq DOMAIN searchCache']_vars

\* A catalog search has written to the cache while it held an entry that was
\* no longer fresh, and that entry is still there.
C15_StaleEntryKept ==
    \E p \in DOMAIN pc :
        /\ CatalogAnswered(p)
        /\ \E id \in DOMAIN searchCache : searchCache[id].timestamp = now
        /\ \E id \in DOMAIN searchCache : now - searchCache[id].timestamp >= CACHE_TIMEOUT

\* C19: serving from the cache leaves the cached entry untouched. A step in
\* which a stream or meta request is answered from a cache entry changes
\* nothing in the cache: the entry keeps its Results, their discovery order and
\* its timestamp.
C19_CacheUntouchedByHits ==
    [][\A p \in DOMAIN pc :
          (resp'[p] # resp[p] /\ resp'[p].cachedAge # NullNum)
              => searchCache' = searchCache]_vars

\* A stream request was served from an entry whose Results the presentation
\* reordered: the first stream is not the first cached Result.
C19_ServedReordered ==
    \E p \in DOMAIN pc :
        /\ req[p].kind = "stream"
        /\ resp[p].cachedAge # NullNum
        /\ req[p].arg \in DOMAIN searchCache
        /\ Len(resp[p].items) = Len(searchCache[req[p].arg].streams)
        /\ Len(resp[p].items) > 1
        /\ resp[p].items[1].title # searchCache[req[p].arg].streams[1].filename

(***************************************************************************)
(* server.js and setConfiguration: requests routed through the routers of  *)
(* two configurations.                                                     *)
(***************************************************************************)
\* addonInterface.setConfiguration(config): the module-level searcher and
\* credentials are replaced.
setConfiguration(config) ==
    /\ easynewsUsername' = CredentialsOf(config).username
    /\ easynewsPassword' = CredentialsOf(config).password
    /\ easynewsSearcher' = CredentialsOf(config)

\* getOrCreateRouter(configStr): the cached router, or a new one after
\* setConfiguration.
getOrCreateRouter(configStr) ==
    IF configStr \in routerCache
    THEN UNCHANGED <<routerCache, easynewsSearcher, easynewsUsername, easynewsPassword>>
    ELSE /\ setConfiguration(configStr)
         /\ routerCache' = routerCache \cup {configStr}

\* The step of invocation p has called easynewsSearcher.search: the searcher of
\* that moment sends the GETs of the call, retries included.
SearchBegun(p) ==
    /\ pc'[p] = "fetching"
    /\ call'[p].requests = 1
    /\ pc[p] # "fetching" \/ call'[p].site # call[p].site

\* The step has returned streams made by createStream, which reads the
\* credentials of that moment.
StreamsMade(p) ==
    /\ pc'[p] = "done"
    /\ resp'[p].kind = "streams"
    /\ Len(resp'[p].items) > 0

\* What the invocation p, routed through configStr, is served with in a step
\* that starts its handler.
ServedAtStart(p, configStr) ==
    auth' = [auth EXCEPT ![p] =
                [config |-> configStr,
                 fetch  |-> IF SearchBegun(p) THEN easynewsSearcher' ELSE NoCredentials,
                 header |-> IF StreamsMade(p)
                            THEN [username |-> easynewsUsername', password |-> easynewsPassword']
                            ELSE NoCredentials]]

\* The same in a step that resumes its handler after an await.
ServedOnResume(p) ==
    /\ auth' = [auth EXCEPT
                   ![p].fetch  = IF SearchBegun(p) THEN easynewsSearcher ELSE @,
                   ![p].header = IF StreamsMade(p)
                                 THEN [username |-> easynewsUsername,
                                       password |-> easynewsPassword]
                                 ELSE @]
    /\ UNCHANGED <<routerCache, easynewsSearcher, easynewsUsername, easynewsPassword,
                   routed>>

\* The requests that arrive at server.js. The arg of a stream request is the id
\* segment of its URL: the id escaped once and followed by .json, as clients of
\* the addon protocol send it, the id as the catalog returned it, or the id
\* escaped twice.
RoutedCatalogRequests == {[kind |-> "catalog", type |-> "movie", arg |-> "movie"]}
RoutedStreamRequests ==
    {[kind |-> "stream", type |-> "movie", arg |-> encodeURIComponent(MovieId) \o ".json"],
     [kind |-> "stream", type |-> "movie", arg |-> MovieId \o ".json"],
     [kind |-> "stream", type |-> "movie",
      arg |-> encodeURIComponent(encodeURIComponent(MovieId)) \o ".json"],
     [kind |-> "stream", type |-> "series", arg |-> "kitsu%3A1%3A2.json"]}

\* No router exists when the process starts.
ConfigInit ==
    /\ now = 0
    /\ ticks = 0
    /\ searchCache = EmptyCache
    /\ pc = [p \in Invocations |-> "idle"]
    /\ req = [p \in Invocations |-> NoRequest]
    /\ call = [p \in Invocations |-> NoCall]
    /\ meta = [p \in Invocations |-> NoMetadata]
    /\ ret = [p \in Invocations |-> NoReturn]
    /\ resp = [p \in Invocations |-> NoResponse]
    /\ routerCache = {}
    /\ easynewsSearcher = NoCredentials
    /\ easynewsUsername = NullStr
    /\ easynewsPassword = NullStr
    /\ auth = [p \in Invocations |-> NoAuth]
    /\ routed = [p \in Invocations |-> NoRoute]

\* req.params.id of app.get('/:config/stream/:type/:id'): the segment the route
\* matched, decoded by Express (Throw: it answers 400 and calls no handler).
StreamParamId(segment) == decodeURIComponent(segment)

\* req.url = `/stream/${req.params.type}/${req.params.id}`
StreamUrl(type, id) == "/stream/" \o type \o "/" \o id

\* router(req, res, next): the router of the addon matches the rewritten url
\* against /:resource/:type/:id.json and hands the handler the :id it matched,
\* decoded. NullStr: the url is no such path, and no handler is called.
RouterId(url) ==
    LET segment == SplitPart(url, "/", 3)
        n       == Len(segment) - Len(".json")
    IN  IF segment = NullStr \/ SplitPart(url, "/", 4) # NullStr
        THEN NullStr
        ELSE IF n < 1 \/ SubSeq(segment, n + 1, Len(segment)) # ".json"
        THEN NullStr
        ELSE decodeURIComponent(SubSeq(segment, 1, n))

\* The id the stream handler is called with for a request whose URL has this
\* id segment.
HandlerId(type, segment) ==
    IF StreamParamId(segment) = Throw THEN Throw
    ELSE RouterId(StreamUrl(type, StreamParamId(segment)))

\* The same for the requests of this environment, computed once.
handlerIds == Table([r \in RoutedStreamRequests |-> HandlerId(r.type, r.arg)])

\* app.get('/:config/catalog/...') and app.get('/:config/stream/...'): the
\* router of the configuration is looked up or created, then the handler runs.
RoutedCatalog(config, p, r) ==
    /\ getOrCreateRouter(config)
    /\ CatalogRequest(p, r)
    /\ ServedAtStart(p, config)
    /\ routed' = [routed EXCEPT ![p] = [segment |-> NullStr, startTime |-> now]]

RoutedStream(config, p, r) ==
    /\ handlerIds[r] \notin {Throw, NullStr}
    /\ getOrCreateRouter(config)
    /\ StreamRequest(p, [r EXCEPT !.arg = handlerIds[r]])
    /\ ServedAtStart(p, config)
    /\ routed' = [routed EXCEPT ![p] = [segment |-> r.arg, startTime |-> now]]

ConfigNext ==
    \/ \E c \in Configurations, p \in DOMAIN pc, r \in RoutedCatalogRequests :
          RoutedCatalog(c, p, r)
    \/ \E c \in Configurations, p \in DOMAIN pc, r \in RoutedStreamRequests :
          RoutedStream(c, p, r)
    \/ \E p \in DOMAIN pc : FetchFails(p) /\ ServedOnResume(p)
    \/ \E p \in DOMAIN pc : RetryDelayElapsed(p) /\ UNCHANGED settings
    \/ \E p \in DOMAIN pc : FetchSucceeds(p) /\ ServedOnResume(p)
    \/ Tick /\ UNCHANGED settings

ConfigSpec == ConfigInit /\ [][ConfigNext]_vars

\* C18: requests are served with the credentials of the configuration they
\* were routed through. The GETs of an invocation's search and the
\* authorization header of its streams carry the credentials of the
\* configuration whose router received the request, also after the router of
\* another configuration has been created.
C18_OwnCredentials ==
    \A p \in DOMAIN auth :
        /\ auth[p].fetch # NoCredentials => auth[p].fetch = CredentialsOf(auth[p].config)
        /\ auth[p].header # NoCredentials => auth[p].header = CredentialsOf(auth[p].config)

(***************************************************************************)
(* Two handler invocations in flight: a request is received while another  *)
(* one is suspended at an await.                                           *)
(***************************************************************************)
ConcurrentInvocations == {"h1", "h2"}

ConcurrentInit ==
    /\ now = 0
    /\ ticks = 0
    /\ searchCache = EmptyCache
    /\ pc = [p \in ConcurrentInvocations |-> "idle"]
    /\ req = [p \in ConcurrentInvocations |-> NoRequest]
    /\ call = [p \in ConcurrentInvocations |-> NoCall]
    /\ meta = [p \in ConcurrentInvocations |-> NoMetadata]
    /\ ret = [p \in ConcurrentInvocations |-> NoReturn]
    /\ resp = [p \in ConcurrentInvocations |-> NoResponse]
    /\ Configured("A", ConcurrentInvocations)

\* The requests of the two clients: catalog searches that write the key of
\* "Movie (2019)", and stream and meta requests that read it.
ConcurrentCatalogRequests == {[kind |-> "catalog", type |-> "movie", arg |-> "movie"]}
ConcurrentStreamRequests == {[kind |-> "stream", type |-> "movie", arg |-> MovieId]}
ConcurrentMetaRequests == {[kind |-> "meta", type |-> "movie", arg |-> MovieId]}

ConcurrentNext ==
    \/ \E p \in DOMAIN pc, r \in ConcurrentCatalogRequests :
          CatalogRequest(p, r) /\ UNCHANGED settings
    \/ \E p \in DOMAIN pc, r \in ConcurrentMetaRequests :
          MetaRequest(p, r) /\ UNCHANGED settings
    \/ \E p \in DOMAIN pc, r \in ConcurrentStreamRequests :
          StreamRequest(p, r) /\ UNCHANGED settings
    \/ \E p \in DOMAIN pc : FetchFails(p) /\ UNCHANGED settings
    \/ \E p \in DOMAIN pc : RetryDelayElapsed(p) /\ UNCHANGED settings
    \/ \E p \in DOMAIN pc : FetchSucceeds(p) /\ UNCHANGED settings
    \/ Tick /\ UNCHANGED settings

ConcurrentSpec == ConcurrentInit /\ [][ConcurrentNext]_vars

\* The lists one catalog search stores under the key id: the Results with that
\* key among those of the requested kind that search returned for a feed.
WholeLists(id) ==
    {StoredUnder(Wanted(memo.search[xml], type), id) : xml \in Feeds, type \in ContentTypes}
        \ {<<>>}

\* The keys of the Results the feeds hold.
FeedKeys ==
    UNION {{CacheKey(ContentKey(memo.search[xml][i])) : i \in 1..Len(memo.search[xml])} :
              xml \in Feeds}

wholeLists == Table([id \in FeedKeys |-> WholeLists(id)])

\* C16: a get-then-use of one cache key is atomic with respect to concurrent
\* overwrites of the key. Under every interleaving of requests reading the key
\* with catalog searches writing it, the entry under the key is the whole list
\* one search stored, and the streams of a reader served from the cache are
\* those of one such list: never a mix of two lists or a list written in part.
C16_NoTornEntry ==
    /\ \A id \in DOMAIN searchCache :
          id \in DOMAIN wholeLists /\ searchCache[id].streams \in wholeLists[id]
    /\ \A p \in DOMAIN pc :
          (req[p].kind = "stream" /\ resp[p].cachedAge # NullNum) =>
              \E whole \in wholeLists[req[p].arg] :
                  /\ whole \in DOMAIN memo.presented
                  /\ resp[p].items = memo.presented[whole]

\* A reader was served the old entry whole while a catalog search was in
\* flight, and that search has since overwritten the entry with a list of
\* another length.
C16_ReadBetweenWrites ==
    \E p, q \in DOMAIN pc :
        /\ p # q
        /\ CatalogAnswered(p)
        /\ req[q].kind = "stream"
        /\ resp[q].cachedAge # NullNum
        /\ req[q].arg \in DOMAIN searchCache
        /\ Len(resp[q].items) > 0
        /\ Len(resp[q].items) # Len(searchCache[req[q].arg].streams)

(***************************************************************************)
(* Progress: every GET completes and every retry delay elapses.            *)
(***************************************************************************)
\* A GET that was sent is answered or fails (fetch settles).
FetchCompletes ==
    \E p \in DOMAIN pc : (FetchFails(p) \/ FetchSucceeds(p)) /\ UNCHANGED settings

\* The timer of the retry delay fires.
DelayElapses == \E p \in DOMAIN pc : RetryDelayElapsed(p) /\ UNCHANGED settings

LiveSpec == Spec /\ WF_vars(FetchCompletes) /\ WF_vars(DelayElapses)

\* The call sites of easynewsSearcher.search in the handlers.
SearchSites == {"catalog", "cached", "tmdb", "title", "id"}

\* C20: every search call eventually returns, provided each fetch attempt
\* eventually completes. Within a search call a GET is sent again only after
\* a failed attempt and its delay, and it lowers the remaining retries by one,
\* never below 0; no GET of the call is sent after a successful one; the
\* retries end with a success or with no retry left; and a search call in
\* progress leads to its handler going on (to its end or to its next search
\* call).
C20_SearchReturns ==
    /\ [][\A p \in DOMAIN pc :
             /\ call'[p].requests # call[p].requests
                    => \/ /\ pc[p] = "delaying"
                          /\ call'[p].retries = call[p].retries - 1
                          /\ call'[p].retries >= 0
                          /\ call'[p].requests = call[p].requests + 1
                       \/ /\ pc[p] # "delaying"
                          /\ call'[p].requests = 1
                          /\ call'[p].retries = maxRetries
                       \/ /\ pc[p] \in {"idle", "done"}
                          /\ call'[p] = NoCall
             /\ (pc[p] = "delaying" /\ pc'[p] # "delaying")
                    => call'[p].requests = call[p].requests + 1
             /\ (pc[p] = "fetching" /\ pc'[p] = "delaying") => call[p].retries > 0
             /\ (pc[p] = "fetching" /\ ret'[p] # ret[p])
                    => /\ pc'[p] = "done" \/ (pc'[p] = "fetching" /\ call'[p].requests = 1)
                       /\ ret'[p].xml = Throw => call[p].retries = 0]_vars
    /\ \A p \in Invocations : \A site \in SearchSites :
          (pc[p] \in {"fetching", "delaying"} /\ call[p].site = site)
              ~> (pc[p] = "done" \/ call[p].site # site)

\* A search has returned the Results of its third GET, after two failed ones.
C20_ThirdAttemptSucceeds ==
    \E p \in DOMAIN pc :
        /\ pc[p] = "done"
        /\ ret[p].status = "returned"
        /\ ret[p].xml # Throw
        /\ call[p].requests = 3
        /\ call[p].retries = maxRetries - 2

(***************************************************************************)
(* The ids of the catalog and the keys of the cache, for requests that     *)
(* arrive at server.js.                                                    *)
(***************************************************************************)
\* The id segments of the URLs that carry the id: escaped once, or as it is.
Carrying(id) == {encodeURIComponent(id) \o ".json", id \o ".json"}

\* The same for the keys of the Results the feeds hold, computed once.
carrying == Table([id \in FeedKeys |-> Carrying(id)])

Carries(segment, id) == segment \in carrying[id]

\* C21: the catalog's ids and the cache's keys agree. A stream request that
\* carries the id of a Content a catalog request has returned, and that arrives
\* less than 30 minutes after the entry of that id was written, is answered
\* from that entry: it ends without a search (no request to the remote index)
\* and its streams are those of the entry's Results.
C21_CatalogIdsHitCache ==
    \A p \in DOMAIN pc : \A id \in DOMAIN searchCache :
        (/\ req[p].kind = "stream"
         /\ Carries(routed[p].segment, id)
         /\ searchCache[id].timestamp <= routed[p].startTime
         /\ routed[p].startTime - searchCache[id].timestamp < CACHE_TIMEOUT)
            => /\ pc[p] = "done"
               /\ call[p] = NoCall
               /\ resp[p].kind = "streams"
               /\ resp[p].items = memo.presented[searchCache[id].streams]

\* The id segment that holds the id escaped twice.
twiceEscaped ==
    Table([id \in FeedKeys |-> encodeURIComponent(encodeURIComponent(id)) \o ".json"])

\* What the routes do instead: the handler is called with the id decoded twice,
\* so a routed stream request is answered from the cache only when its URL
\* carries the id of the entry escaped twice.
RoutedHitsTwiceEscaped ==
    \A p \in DOMAIN pc :
        (req[p].kind = "stream" /\ resp[p].cachedAge # NullNum)
            => routed[p].segment = twiceEscaped[req[p].arg]

\* A routed stream request has been answered from the cache.
RoutedHit ==
    \E p \in DOMAIN pc :
        /\ req[p].kind = "stream"
        /\ pc[p] = "done"
        /\ resp[p].cachedAge # NullNum
        /\ Len(resp[p].items) > 0

====
